---- MODULE Spec2Model ----
(***************************************************************************)
(* A model of formix: additive secret sharing over Z/2^32 and the          *)
(* per-computation protocol run by three heavy nodes (coordinators) and    *)
(* the light nodes (participants).                                         *)
(*                                                                         *)
(* The specifications of the module:                                       *)
(*   Spec         the protocol for one computation K (core/node.py,        *)
(*                protocols/aggregation.py, db/database.py)                *)
(*   SpecShares   the pure functions of protocols/secret_sharing.py        *)
(*   SpecPrivacy  the outputs create_shares can produce, by position       *)
(*   SpecMessages the handlers of the heavy nodes under duplicated,        *)
(*                stray and malformed messages                             *)
(*   SpecParticipants  the light nodes under duplicated descriptors        *)
(*   SpecSend     MessageProtocol.send_message and request_response        *)
(*   SpecBroadcast  MessageProtocol.broadcast and gather_with_concurrency  *)
(*   SpecRegistry the users table of NetworkDatabase and _create_node      *)
(*   SpecShutdown BaseNode.cleanup of a heavy node with a deadline task    *)
(*   SpecReveal   the reveal phase with reveal responses out of turn       *)
(*   SpecIntake   handle_share step by step, against the deadline task     *)
(*   SpecInit     the init wait of the first heavy node, poll by poll      *)
(*   SpecSubmit   broadcast_computation with sends that fail               *)
(*   SpecPool     DatabaseConnectionPool under concurrent store operations *)
(*   SpecPoolFair SpecPool where every running operation keeps advancing   *)
(*                                                                         *)
(* TLC's integers are 32 bit, so the ring is modelled with RingBits bits   *)
(* instead of 32; every reduction modulo MODULUS is kept where the code    *)
(* has it.                                                                 *)
(***************************************************************************)
EXTENDS Integers, Sequences, FiniteSets, TLC

\* ------------------------------------------------------------------ bounds
RingBits == 2
\* create_shares is explored for num_shares in 1..MaxShares
MaxShares == 3
\* add_shares is explored for families of 1..MaxFamily share vectors
MaxFamily == 2
\* light nodes of the network
NumLight == 2
\* a light node's response_value is drawn from 0..MaxValue (code: 0..100)
MaxValue == 1
\* heavy nodes that may crash or shut down during the computation
MaxStopped == 1
\* duplicated, stray and malformed messages delivered during a computation
MaxMessages == 2
\* broadcast is explored for 0..MaxPorts ports
MaxPorts == 3
\* and for max_concurrent in 1..MaxConcurrent (code default: 10)
MaxConcurrent == 2
\* calls of get_next_available_port in one exploration of the registry
MaxAllocs == 3
\* _create_node calls that may run at the same time
NumCreators == 2
\* connections of one DatabaseConnectionPool (code: max_connections, 10 or 3)
PoolSize == 2
\* store operations that may run on one pool at the same time
NumOps == 3

\* ------------------------------------------------------- program constants
\* SecretSharing.MODULUS = 2**32, at the model's ring width
MODULUS == 2 ^ RingBits
\* ShareDistribution and the descriptor fix three heavy nodes
NUM_SHARES == 3
\* SQL NULL of computations.result / participants_count
NULL == 0 - 1

comp_id == "K"
\* [computation['heavy_node_1'], computation['heavy_node_2'], computation['heavy_node_3']]
heavy_nodes == <<"h1", "h2", "h3">>
Heavy == {heavy_nodes[i] : i \in 1..NUM_SHARES}
\* the heavy nodes of the network: the three of the descriptor and one more
HeavyNodes == Heavy \cup {"h4"}
Light == 1..NumLight
Ring == 0..(MODULUS - 1)
\* the random shares a light node draws in the protocol run
ShareDraws == {MODULUS - 1}

VARIABLES
  \* --- SpecShares: one family of create_shares calls and their add_shares
  ss_pc,            \* "idle" | "loop" | "added" | "assert_failed"
  ss_num_shares,    \* num_shares, the same for every vector of the family
  ss_call,          \* locals of the running create_shares call
  ss_secrets,       \* the secrets shared so far
  ss_family,        \* shares_list: the share vectors returned so far
  ss_aggregated,    \* add_shares(shares_list)
  ss_reconstructed, \* reconstruct_secret(aggregated)
  \* --- Spec: registry (network.db)
  users,            \* uids of the heavy nodes that run and have a row in users
  computations,     \* the computations row of K: status, result, participants_count
  registry_writes,  \* history: the writes made to that row, in order
  \* --- Spec: environment
  deadline_passed,  \* datetime.now(UTC) >= computation['deadline']
  bc_pc, bc_idx,    \* NodeManager.broadcast_computation
  \* --- Spec: heavy nodes
  processed_computations, \* [h -> set of comp ids]
  active_computations,    \* [h -> dict comp_id -> SecureAggregation]
  init_confirmations,     \* [h -> dict comp_id -> set of uids]
  received_db,            \* [h -> rows of its received_shares table]
  hc_pc,                  \* first heavy node's handle_computation: "idle" | "waiting" | "done"
  timer,                  \* [h -> "none" | "armed" | "fired"]: the _process_at_deadline task
  dl_pc,                  \* [h -> position of the _process_at_deadline task after its sleep]
  reveal_idx,             \* [h -> index into other_heavy_nodes of its reveal loop]
  dl_write,               \* result the post-grace reconstruction is about to store
  rr,                     \* [s -> the handle_reveal_request call running at s]
  late_share,             \* history: some heavy node added a share after its own tick
  \* --- Spec: light nodes
  l_pc, l_idx,            \* LightNode.handle_computation
  l_processed,            \* [p -> processed_computations]
  response_value,         \* [p -> value]
  computation_responses,  \* [p -> dict comp_id -> response_value]
  distribution,           \* [p -> shares of ShareDistribution.distribute]
  \* --- SpecPrivacy
  priv,                   \* two secrets, share positions, and what shows there
  \* --- SpecMessages
  m_log,                  \* messages handled besides those of the protocol run,
                          \* each with the reply handle_message gave
  \* --- SpecSend
  snd_pc,                 \* position in send_message
  snd_attempt,            \* attempt, the loop variable
  snd_log,                \* history: posts, their outcomes and the sleeps, in order
  snd_result,             \* what the call gave its caller
  snd_caller,             \* "send_message" | "request_response"
  \* --- SpecBroadcast
  g_pc,                   \* MessageProtocol.broadcast: "idle" | "gathering" | "returned"
  g_ports,                \* ports, each given as what send_message to it ends with
  g_max,                  \* max_concurrent
  g_sem,                  \* the value of the asyncio.Semaphore
  g_task,                 \* [i -> "waiting" | "sending" | "done"]: bounded_task i
  g_results,              \* [i -> result of task i] as asyncio.gather keeps them
  g_return,               \* the list broadcast returned
  \* --- SpecRegistry
  r_users,                \* the users table: rows [uid, port]
  r_creator,              \* [c -> the _create_node call c: pc, uid, port]
  r_alloc,                \* history: what get_next_available_port returned, in order
  r_last,                 \* the last add_node / remove_node call and what it returned
  \* --- SpecShutdown
  n_status,               \* [h -> self.status: "ACTIVE" | "STOPPING" | "STOPPED"]
  n_loop,                 \* [h -> "running" | "finally" | "closed"]: the event loop
                          \* that runs h, along NodeManager.run_node
  \* --- SpecIntake
  intake,                 \* [h -> the handle_share calls at h between the return of
                          \*       db.add_share and aggregator.add_share]
  \* --- SpecInit
  hc_polls,               \* the sleeps of _wait_for_heavy_node_confirmations so far
  hc_exit,                \* how that wait ended: "none" | "confirmed" | "expired"
  \* --- SpecPool
  p_available,            \* DatabaseConnectionPool._available, a list
  p_pc,                   \* [o -> where store operation o stands]
  p_conn,                 \* [o -> the connection o holds, or NULL]
  p_outcome               \* [o -> how the body of o ended last: "none" | "ok" | "raised"]

ss_vars == <<ss_pc, ss_num_shares, ss_call, ss_secrets, ss_family, ss_aggregated,
             ss_reconstructed>>
reg_vars == <<users, computations, registry_writes>>
env_vars == <<deadline_passed, bc_pc, bc_idx>>
heavy_vars == <<processed_computations, active_computations, init_confirmations,
                received_db, hc_pc, timer, dl_pc, reveal_idx, dl_write, rr, late_share>>
light_vars == <<l_pc, l_idx, l_processed, response_value, computation_responses,
                distribution>>
proto_vars == <<reg_vars, env_vars, heavy_vars, light_vars>>
msg_vars == <<m_log>>
send_vars == <<snd_pc, snd_attempt, snd_log, snd_result, snd_caller>>
gather_vars == <<g_pc, g_ports, g_max, g_sem, g_task, g_results, g_return>>
registry_vars == <<r_users, r_creator, r_alloc, r_last>>
shutdown_vars == <<n_status, n_loop>>
intake_vars == <<intake>>
init_vars == <<hc_polls, hc_exit>>
pool_vars == <<p_available, p_pc, p_conn, p_outcome>>
ext_vars == <<gather_vars, registry_vars, shutdown_vars, intake_vars, init_vars,
              pool_vars>>
aux_vars == <<priv, msg_vars, send_vars, ext_vars>>
vars == <<ss_vars, proto_vars, aux_vars>>

\* ------------------------------------------------------------ helpers
RECURSIVE SeqSum(_)
SeqSum(s) == IF s = <<>> THEN 0 ELSE s[1] + SeqSum(Tail(s))

RECURSIVE DictSum(_)
\* sum(d.values())
DictSum(d) ==
  IF DOMAIN d = {} THEN 0
  ELSE LET k == CHOOSE x \in DOMAIN d : TRUE
       IN d[k] + DictSum([x \in DOMAIN d \ {k} |-> d[x]])

EmptyDict == <<>>
\* d[k] = v
DictSet(d, k, v) == [x \in DOMAIN d \cup {k} |-> IF x = k THEN v ELSE d[x]]
\* del d[k]
DictDel(d, k) == [x \in DOMAIN d \ {k} |-> d[x]]

\* =================================================== secret_sharing.py
verify_share_range(share) == 0 <= share /\ share < MODULUS

reconstruct_secret(shares) == SeqSum(shares) % MODULUS

last_share_wrong(secret, sum_shares) == secret - sum_shares
\* last_share = (secret - sum_shares) % MODULUS
last_share(secret, sum_shares) == (secret - sum_shares) % MODULUS

add_shares_wrong(shares_list) ==
  [i \in 1..Len(shares_list[1]) |-> shares_list[1][i] % MODULUS]
\* component_sum = sum(shares[i] for shares in shares_list) % MODULUS
add_shares(shares_list) ==
  [i \in 1..Len(shares_list[1]) |->
     SeqSum([j \in 1..Len(shares_list) |-> shares_list[j][i]]) % MODULUS]

ShareInit ==
  /\ ss_pc = "idle"
  /\ ss_call = [secret |-> 0, shares |-> <<>>, sum_shares |-> 0]
  /\ ss_secrets = <<>>
  /\ ss_family = <<>>
  /\ ss_aggregated = <<>>
  /\ ss_reconstructed = NULL

\* create_shares(secret, num_shares): the range check and the empty locals
create_shares_begin ==
  /\ ss_pc = "idle"
  /\ Len(ss_family) < MaxFamily
  /\ \E secret \in Ring :
       ss_call' = [secret |-> secret, shares |-> <<>>, sum_shares |-> 0]
  /\ ss_pc' = "loop"
  /\ UNCHANGED <<ss_num_shares, ss_secrets, ss_family, ss_aggregated, ss_reconstructed>>

\* one turn of `for i in range(num_shares - 1)`
create_shares_random ==
  /\ ss_pc = "loop"
  /\ Len(ss_call.shares) < ss_num_shares - 1
  /\ \E share \in Ring :
       ss_call' = [ss_call EXCEPT !.shares = Append(@, share),
                                  !.sum_shares = (@ + share) % MODULUS]
  /\ UNCHANGED <<ss_pc, ss_num_shares, ss_secrets, ss_family, ss_aggregated,
                 ss_reconstructed>>

\* the last share, the assert and the return
create_shares_last ==
  /\ ss_pc = "loop"
  /\ Len(ss_call.shares) = ss_num_shares - 1
  /\ LET shares == Append(ss_call.shares, last_share(ss_call.secret, ss_call.sum_shares))
     IN IF reconstruct_secret(shares) = ss_call.secret
        THEN /\ ss_pc' = "idle"
             /\ ss_family' = Append(ss_family, shares)
             /\ ss_secrets' = Append(ss_secrets, ss_call.secret)
        ELSE /\ ss_pc' = "assert_failed"
             /\ UNCHANGED <<ss_family, ss_secrets>>
  /\ UNCHANGED <<ss_num_shares, ss_call, ss_aggregated, ss_reconstructed>>

\* reconstruct_secret(add_shares(shares_list)) on the vectors made so far
add_and_reconstruct ==
  /\ ss_pc = "idle"
  /\ ss_family # <<>>
  /\ ss_aggregated' = add_shares(ss_family)
  /\ ss_reconstructed' = reconstruct_secret(ss_aggregated')
  /\ ss_pc' = "added"
  /\ UNCHANGED <<ss_num_shares, ss_call, ss_secrets, ss_family>>

\* ---------------------------------------- the outputs of create_shares
RECURSIVE SumSharesMod(_)
\* sum_shares after the loop: sum_shares = (sum_shares + share) % MODULUS
SumSharesMod(shares) ==
  IF shares = <<>> THEN 0
  ELSE (SumSharesMod(SubSeq(shares, 1, Len(shares) - 1)) + shares[Len(shares)]) % MODULUS

create_shares_outputs_wrong(secret, num_shares) ==
  {Append([i \in 1..(num_shares - 1) |-> 0], last_share(secret, 0))}
\* every list create_shares(secret, num_shares) can return: one for each
\* outcome of its num_shares - 1 calls of random.randint(0, MODULUS - 1)
create_shares_outputs(secret, num_shares) ==
  {Append(r, last_share(secret, SumSharesMod(r))) : r \in [1..(num_shares - 1) -> Ring]}

\* what the holders of the shares at `positions` see of the list `shares`
SharesAt(shares, positions) == [i \in positions |-> shares[i]]

PrivInit ==
  priv = [pc |-> "idle", va |-> 0, vb |-> 0, num_shares |-> 1, positions |-> {},
          views_a |-> {}, views_b |-> {}]

\* two secrets, a number of shares and a strict subset of the share positions
privacy_choose ==
  /\ priv.pc = "idle"
  /\ \E va \in Ring, vb \in Ring, n \in 1..MaxShares :
       \E positions \in (SUBSET (1..n)) \ {1..n} :
         priv' = [priv EXCEPT !.pc = "chosen", !.va = va, !.vb = vb,
                              !.num_shares = n, !.positions = positions]
  /\ UNCHANGED <<ss_vars, proto_vars, msg_vars, send_vars, ext_vars>>

\* all that can show at those positions, for either secret
privacy_collect ==
  /\ priv.pc = "chosen"
  /\ priv' = [priv EXCEPT
       !.pc = "collected",
       !.views_a = {SharesAt(sh, priv.positions) :
                      sh \in create_shares_outputs(priv.va, priv.num_shares)},
       !.views_b = {SharesAt(sh, priv.positions) :
                      sh \in create_shares_outputs(priv.vb, priv.num_shares)}]
  /\ UNCHANGED <<ss_vars, proto_vars, msg_vars, send_vars, ext_vars>>

\* ====================================================== aggregation.py
\* SecureAggregation.__init__
SecureAggregation_wrong(min_participants) ==
  [min_participants |-> 0,
   received_shares |-> EmptyDict,
   partial_sums_from_other_nodes |-> EmptyDict]
SecureAggregation(min_participants) ==
  [min_participants |-> min_participants,
   received_shares |-> EmptyDict,
   partial_sums_from_other_nodes |-> EmptyDict]

\* self.received_shares[sender_uid] = share_value (after the range check)
add_share_wrong(a, sender_uid, share_value) ==
  [a EXCEPT !.received_shares = DictSet(EmptyDict, sender_uid, share_value)]
\* self.received_shares[sender_uid] = share_value
add_share(a, sender_uid, share_value) ==
  [a EXCEPT !.received_shares = DictSet(@, sender_uid, share_value)]

can_aggregate(a) == Cardinality(DOMAIN a.received_shares) >= a.min_participants

compute_partial_sum(a) ==
  IF DOMAIN a.received_shares = {} THEN 0
  ELSE DictSum(a.received_shares) % MODULUS

\* heavy_nodes.index(heavy_node_uid)
get_heavy_node_position(uid) == (CHOOSE i \in 1..NUM_SHARES : heavy_nodes[i] = uid) - 1

is_primary_heavy_node_wrong(uid) == get_heavy_node_position(uid) >= 0
\* return self.get_heavy_node_position() == 0
is_primary_heavy_node(uid) == get_heavy_node_position(uid) = 0

\* [uid for uid in heavy_nodes if uid != self.uid]
other_heavy_nodes(uid) == SelectSeq(heavy_nodes, LAMBDA x : x # uid)

add_partial_sum_from_heavy_node(a, heavy_node_uid, partial_sum) ==
  [a EXCEPT !.partial_sums_from_other_nodes = DictSet(@, heavy_node_uid, partial_sum)]

can_perform_final_reconstruction(uid, a) ==
  /\ is_primary_heavy_node(uid)
  /\ \A o \in Heavy \ {uid} : o \in DOMAIN a.partial_sums_from_other_nodes

get_total_participants_wrong(a) ==
  Cardinality(DOMAIN a.received_shares) + Cardinality(DOMAIN a.partial_sums_from_other_nodes)
\* len(self.received_shares)
get_total_participants(a) == Cardinality(DOMAIN a.received_shares)

meets_anonymity_threshold(a) == get_total_participants(a) >= a.min_participants

RECURSIVE AddAllMod(_, _)
\* for partial_sum in d.values(): total_sum = (total_sum + partial_sum) % MODULUS
AddAllMod(total_sum, d) ==
  IF DOMAIN d = {} THEN total_sum
  ELSE LET k == CHOOSE x \in DOMAIN d : TRUE
       IN AddAllMod((total_sum + d[k]) % MODULUS, DictDel(d, k))

\* the value compute_final_result returns when none of its checks raises
compute_final_result(a) ==
  AddAllMod(compute_partial_sum(a), a.partial_sums_from_other_nodes)

\* ========================================================= database.py
\* NetworkDatabase.update_computation_result: UPDATE ... WHERE comp_id = ?
update_computation_result(row, result, participants_count) ==
  [row EXCEPT !.status = "completed",
              !.result = result,
              !.participants_count = participants_count]

\* NetworkDatabase has no method update_computation_status: every call site
\* in node.py raises AttributeError when it evaluates the attribute, before
\* anything is written.

\* the write of update_computation_result, with its history record
StoreResult(by, via, result, participants_count) ==
  /\ computations' = update_computation_result(computations, result, participants_count)
  /\ registry_writes' = Append(registry_writes,
        [by |-> by, via |-> via, result |-> result,
         participants_count |-> participants_count])

\* a row of received_shares; PRIMARY KEY (comp_id, sender_uid)
ShareRow(cid, sender_uid, share_value) ==
  [comp_id |-> cid, sender_uid |-> sender_uid, share_value |-> share_value]

db_add_share_wrong(table, sender_uid, share_value) ==
  table \cup {ShareRow(comp_id, sender_uid, share_value)}
\* NodeDatabase.add_share: INSERT OR REPLACE INTO received_shares
db_add_share(table, sender_uid, share_value) ==
  {r \in table : ~(r.comp_id = comp_id /\ r.sender_uid = sender_uid)}
    \cup {ShareRow(comp_id, sender_uid, share_value)}

\* the senders with a row in the table
RowSenders(table) == {r.sender_uid : r \in table}

\* NodeDatabase.add_response: INSERT, or UPDATE on IntegrityError
db_add_response(table, cid, value) == DictSet(table, cid, value)

\* ============================================================== node.py
first_heavy == heavy_nodes[1]

Aggregator(h) == active_computations[h][comp_id]
HasAggregator(h) == comp_id \in DOMAIN active_computations[h]

\* no handle_reveal_request call is running
IdleReveal ==
  [pc |-> "idle", requester |-> "", partial_sum |-> 0, participant_count |-> 0,
   final_result |-> 0, total_participants |-> 0]

ProtoInitWith(min_participants) ==
  /\ users = HeavyNodes
  /\ computations = [status |-> "pending", result |-> NULL,
                     participants_count |-> NULL,
                     min_participants |-> min_participants]
  /\ registry_writes = <<>>
  /\ deadline_passed = FALSE
  /\ bc_pc = "heavy"
  /\ bc_idx = 1
  /\ processed_computations = [h \in HeavyNodes |-> {}]
  /\ active_computations = [h \in HeavyNodes |-> EmptyDict]
  /\ init_confirmations = [h \in HeavyNodes |-> EmptyDict]
  /\ received_db = [h \in HeavyNodes |-> {}]
  /\ hc_pc = "idle"
  /\ timer = [h \in HeavyNodes |-> "none"]
  /\ dl_pc = [h \in HeavyNodes |-> "none"]
  /\ reveal_idx = [h \in HeavyNodes |-> 1]
  /\ dl_write = [final_result |-> 0, total_participants |-> 0]
  /\ rr = [h \in HeavyNodes |-> IdleReveal]
  /\ late_share = FALSE
  /\ l_pc = [p \in Light |-> "idle"]
  /\ l_idx = [p \in Light |-> 1]
  /\ l_processed = [p \in Light |-> {}]
  /\ response_value = [p \in Light |-> NULL]
  /\ computation_responses = [p \in Light |-> EmptyDict]
  /\ distribution = [p \in Light |-> <<>>]

\* ------------------------------------------------------------ environment
\* the wall clock reaches computation['deadline']
deadline_passes ==
  /\ ~deadline_passed
  /\ deadline_passed' = TRUE
  /\ UNCHANGED <<ss_vars, aux_vars, reg_vars, bc_pc, bc_idx, heavy_vars, light_vars>>

\* BaseNode.cleanup of a secondary after a shutdown signal: site stopped,
\* users row removed, node directory (received_shares table) removed.
\* A secondary that is killed or cut off shows as sends to it that fail; so
\* does one cleaned up after every light node has looked the heavy nodes up,
\* and cleanup is explored only before that.
cleanup(h) ==
  /\ h # first_heavy
  /\ h \in users
  /\ Cardinality(Heavy \ users) < MaxStopped
  /\ \E p \in Light : l_pc[p] = "idle"
  /\ users' = users \ {h}
  /\ received_db' = [received_db EXCEPT ![h] = {}]
  /\ UNCHANGED <<ss_vars, aux_vars, computations, registry_writes, env_vars,
                 processed_computations, active_computations, init_confirmations,
                 hc_pc, timer, dl_pc, reveal_idx, dl_write, rr, late_share, light_vars>>

\* ------------------------------------------- NodeManager.broadcast_computation
\* the loop over heavy_node_uids moves to its next uid, or to the 2 s sleep
BroadcastAdvance ==
  IF bc_idx < NUM_SHARES
  THEN bc_pc' = "heavy" /\ bc_idx' = bc_idx + 1
  ELSE bc_pc' = "sleep" /\ bc_idx' = bc_idx

\* get_node finds no row, or send_message to a secondary raises after its
\* retries (the runs of interest deliver the descriptor to the first heavy node)
broadcast_heavy_skip ==
  /\ bc_pc = "heavy"
  /\ heavy_nodes[bc_idx] # first_heavy \/ first_heavy \notin users
  /\ BroadcastAdvance
  /\ UNCHANGED <<ss_vars, aux_vars, reg_vars, deadline_passed, heavy_vars, light_vars>>

\* get_node finds no row for heavy_nodes[bc_idx], or send_message to it
\* raises after its retries: the loop logs and moves on, whichever node it is
broadcast_send_fails ==
  /\ bc_pc = "heavy"
  /\ BroadcastAdvance
  /\ UNCHANGED <<ss_vars, aux_vars, reg_vars, deadline_passed, heavy_vars, light_vars>>

\* HeavyNode.handle_heavy_init_confirm on the dict init_confirmations
handle_heavy_init_confirm(d, sender_uid) ==
  LET d1 == IF comp_id \in DOMAIN d THEN d ELSE DictSet(d, comp_id, {})
  IN DictSet(d1, comp_id, d1[comp_id] \cup {sender_uid})

\* `if delay > 0: asyncio.create_task(self._process_at_deadline(...))`
\* ("twice": a second task was created while one exists)
schedule_aggregation(h) ==
  timer' = [timer EXCEPT ![h] = IF deadline_passed THEN @
                                ELSE IF @ = "none" THEN "armed" ELSE "twice"]

heavy_already_processed_wrong(h) == FALSE
\* `if comp_id in self.processed_computations: return`
heavy_already_processed(h) == comp_id \in processed_computations[h]

is_designated_wrong(uid) == TRUE
\* `self.uid not in heavy_nodes` is the negation of this
is_designated(uid) == uid \in Heavy

\* the SecureAggregation object handle_computation creates at h
initialize_aggregation(h) ==
  active_computations' =
    [active_computations EXCEPT ![h] =
       DictSet(@, comp_id, SecureAggregation(computations.min_participants))]

\* _send_init_confirmation(first_heavy, comp_id) from h
send_init_confirmation(h) ==
  init_confirmations' =
    IF first_heavy \in users
    THEN [init_confirmations EXCEPT ![first_heavy] = handle_heavy_init_confirm(@, h)]
    ELSE init_confirmations

\* HeavyNode.handle_computation at heavy_nodes[bc_idx], called by the
\* broadcaster's send_message; the first heavy node stops in its init wait
handle_computation(h) ==
  /\ bc_pc = "heavy"
  /\ h = heavy_nodes[bc_idx]
  /\ h \in users
  /\ IF heavy_already_processed(h)
     THEN /\ BroadcastAdvance
          /\ UNCHANGED <<processed_computations, active_computations,
                         init_confirmations, hc_pc, timer>>
     ELSE /\ processed_computations' =
               [processed_computations EXCEPT ![h] = @ \cup {comp_id}]
          /\ initialize_aggregation(h)
          /\ IF h # first_heavy
             THEN \* _send_init_confirmation, then the scheduling
                  /\ send_init_confirmation(h)
                  /\ schedule_aggregation(h)
                  /\ BroadcastAdvance
                  /\ UNCHANGED hc_pc
             ELSE \* _wait_for_heavy_node_confirmations starts
                  /\ init_confirmations' =
                       [init_confirmations EXCEPT ![h] = DictSet(@, comp_id, {})]
                  /\ hc_pc' = "waiting"
                  /\ bc_pc' = "await_first"
                  /\ UNCHANGED <<timer, bc_idx>>
  /\ UNCHANGED <<ss_vars, aux_vars, reg_vars, deadline_passed, received_db, dl_pc,
                 reveal_idx, dl_write, rr, late_share, light_vars>>

\* _wait_for_heavy_node_confirmations returns (all confirmed, or 30 polls
\* done); handle_computation schedules the deadline task and replies
wait_for_heavy_node_confirmations_returns ==
  /\ hc_pc = "waiting"
  /\ hc_pc' = "done"
  /\ schedule_aggregation(first_heavy)
  /\ BroadcastAdvance
  /\ UNCHANGED <<ss_vars, aux_vars, reg_vars, deadline_passed, processed_computations,
                 active_computations, init_confirmations, received_db, dl_pc,
                 reveal_idx, dl_write, rr, late_share, light_vars>>

\* after the 2 s sleep: MessageProtocol.broadcast to the light nodes
broadcast_light ==
  /\ bc_pc = "sleep"
  /\ bc_pc' = "light"
  /\ UNCHANGED <<ss_vars, aux_vars, reg_vars, deadline_passed, bc_idx, heavy_vars, light_vars>>

\* ------------------------------------------------ LightNode.handle_computation
create_shares_wrong(secret, r1, r2) == <<r1, r2, last_share(secret, r1)>>
\* SecretSharing.create_shares(secret, 3) with the two random shares r1, r2
create_shares(secret, r1, r2) ==
  <<r1, r2, last_share(secret, (((0 + r1) % MODULUS) + r2) % MODULUS)>>

light_already_processed_wrong(p) == FALSE
\* LightNode.handle_computation: `if comp_id in self.processed_computations: return`
light_already_processed(p) == comp_id \in l_processed[p]

\* LightNode.handle_computation past the processed check: the value,
\* db.add_response, the get_node lookups and ShareDistribution.distribute
light_process(p) ==
  /\ l_processed' = [l_processed EXCEPT ![p] = @ \cup {comp_id}]
  /\ \E v \in 0..MaxValue, r1 \in ShareDraws, r2 \in ShareDraws :
       /\ response_value' = [response_value EXCEPT ![p] = v]
       /\ computation_responses' =
            [computation_responses EXCEPT ![p] = db_add_response(@, comp_id, v)]
       /\ IF Heavy \subseteq users
          THEN /\ distribution' =
                    [distribution EXCEPT ![p] = create_shares(v, r1, r2)]
               /\ l_pc' = [l_pc EXCEPT ![p] = "send"]
          ELSE \* ValueError("Exactly 3 heavy nodes required")
               /\ l_pc' = [l_pc EXCEPT ![p] = "raised"]
               /\ UNCHANGED distribution

\* the descriptor arrives from the broadcast
light_handle_computation(p) ==
  /\ bc_pc = "light"
  /\ l_pc[p] = "idle"
  \* the light nodes run the same code: which of them is first is immaterial
  /\ \A q \in Light : q < p => l_pc[q] # "idle"
  /\ IF light_already_processed(p)
     THEN /\ l_pc' = [l_pc EXCEPT ![p] = "done"]
          /\ UNCHANGED <<l_processed, response_value, computation_responses, distribution>>
     ELSE light_process(p)
  /\ UNCHANGED <<ss_vars, aux_vars, reg_vars, env_vars, heavy_vars, l_idx>>

LightAdvance_wrong(p) == l_pc' = [l_pc EXCEPT ![p] = "raised"] /\ UNCHANGED l_idx
\* the loop over shares_distribution moves on
LightAdvance(p) ==
  IF l_idx[p] < NUM_SHARES
  THEN l_pc' = [l_pc EXCEPT ![p] = "send"] /\ l_idx' = [l_idx EXCEPT ![p] = @ + 1]
  ELSE l_pc' = [l_pc EXCEPT ![p] = "done"] /\ UNCHANGED l_idx

\* send_message raises after its retries; the light node logs and goes on
send_share_fails(p) ==
  /\ l_pc[p] = "send"
  /\ LightAdvance(p)
  /\ UNCHANGED <<ss_vars, aux_vars, reg_vars, env_vars, heavy_vars, l_processed, response_value,
                 computation_responses, distribution>>

\* HeavyNode.handle_share, called by the light node's send_message: the
\* active_computations check, db.add_share, SecureAggregation.add_share
\* HeavyNode.handle_share at h on share(comp_id, sender_uid, share_value)
handle_share_at(h, sender_uid, share_value) ==
  IF ~HasAggregator(h)
  THEN UNCHANGED <<received_db, active_computations, late_share>>
  ELSE /\ received_db' = [received_db EXCEPT ![h] =
                            db_add_share(@, sender_uid, share_value)]
       /\ IF verify_share_range(share_value)
          THEN /\ active_computations' =
                    [active_computations EXCEPT ![h] =
                       DictSet(@, comp_id,
                               add_share(Aggregator(h), sender_uid, share_value))]
               /\ late_share' = (late_share \/ timer[h] = "fired")
          ELSE \* ValueError: a 500, and the same again on every retry
               UNCHANGED <<active_computations, late_share>>

\* what handle_message answers to that share message
share_reply(h, share_value) ==
  IF HasAggregator(h) /\ ~verify_share_range(share_value) THEN "error" ELSE "ok"

shares_distribution_wrong(p) ==
  [i \in 1..Len(distribution[p]) |->
     <<heavy_nodes[(i % NUM_SHARES) + 1], distribution[p][i]>>]
\* ShareDistribution.distribute: zip(self.heavy_nodes, shares), here without
\* the port
shares_distribution(p) ==
  [i \in 1..Len(distribution[p]) |-> <<heavy_nodes[i], distribution[p][i]>>]

\* the share message of light node p to the node of the running turn of
\* `for node_uid, node_port, share_value in shares_distribution`
handle_share(p) ==
  /\ l_pc[p] = "send"
  /\ LET h == shares_distribution(p)[l_idx[p]][1]
         share_value == shares_distribution(p)[l_idx[p]][2]
     IN /\ h \in users
        /\ handle_share_at(h, p, share_value)
  /\ LightAdvance(p)
  /\ UNCHANGED <<ss_vars, aux_vars, reg_vars, env_vars, processed_computations,
                 init_confirmations, hc_pc, timer, dl_pc, reveal_idx, dl_write, rr,
                 l_processed, response_value, computation_responses, distribution>>

\* ------------------------------------------- HeavyNode._process_at_deadline
\* the sleep of the deadline task ends: the aggregator lookup, can_aggregate
\* and, at the primary, the threshold check that opens _initiate_reveal_process
deadline_task(h) ==
  /\ timer[h] = "armed"
  /\ deadline_passed
  /\ timer' = [timer EXCEPT ![h] = "fired"]
  /\ dl_pc' = [dl_pc EXCEPT ![h] =
       IF ~HasAggregator(h) THEN "returned"
       ELSE IF ~can_aggregate(Aggregator(h))
            \* update_computation_status raises AttributeError: the task ends
            \* before `del self.active_computations[comp_id]`
            THEN "raised_insufficient"
       ELSE IF ~is_primary_heavy_node(h) THEN "returned"
       ELSE IF ~meets_anonymity_threshold(Aggregator(h))
            \* the same AttributeError, raised again inside the except clause
            THEN "raised_insufficient"
       ELSE "reveal"]
  /\ UNCHANGED <<reg_vars, env_vars, processed_computations,
                 active_computations, init_confirmations, received_db, hc_pc,
                 reveal_idx, dl_write, rr, late_share, light_vars>>

\* that task at a heavy node that runs
process_at_deadline(h) ==
  /\ h \in users
  /\ deadline_task(h)
  /\ UNCHANGED <<ss_vars, aux_vars>>

\* the loop over other_heavy_nodes moves on, or reaches asyncio.sleep(2.0)
RevealAdvance(h) ==
  IF reveal_idx[h] < Len(other_heavy_nodes(h))
  THEN /\ dl_pc' = [dl_pc EXCEPT ![h] = "reveal"]
       /\ reveal_idx' = [reveal_idx EXCEPT ![h] = @ + 1]
  ELSE /\ dl_pc' = [dl_pc EXCEPT ![h] = "grace"]
       /\ UNCHANGED reveal_idx

\* heavy_node_uid of the running turn of the loop
RevealTarget(h) == other_heavy_nodes(h)[reveal_idx[h]]

\* get_node finds no row, or request_response returns None without the
\* request having reached the secondary: failed_nodes.append
reveal_request_fails(h) ==
  /\ dl_pc[h] = "reveal"
  /\ h \in users
  /\ RevealAdvance(h)
  /\ UNCHANGED <<ss_vars, aux_vars, reg_vars, env_vars, processed_computations,
                 active_computations, init_confirmations, received_db, hc_pc, timer,
                 dl_write, rr, late_share, light_vars>>

\* HeavyNode.handle_reveal_request at the secondary s, up to the partial sum
handle_reveal_request(h, s) ==
  /\ dl_pc[h] = "reveal"
  /\ h \in users
  /\ s = RevealTarget(h)
  /\ s \in users
  \* rr[s] follows one call at s: no second request while one is running
  /\ rr[s].pc \notin {"responding", "writing"}
  /\ IF ~HasAggregator(s)
     THEN \* {'status': 'error', 'message': 'No aggregator found'}
          /\ rr' = [rr EXCEPT ![s] = [IdleReveal EXCEPT !.pc = "error"]]
          /\ RevealAdvance(h)
     ELSE /\ rr' = [rr EXCEPT ![s] =
                      [IdleReveal EXCEPT
                         !.pc = "responding",
                         !.requester = h,
                         !.partial_sum = compute_partial_sum(Aggregator(s)),
                         !.participant_count =
                            Cardinality(DOMAIN Aggregator(s).received_shares)]]
          /\ dl_pc' = [dl_pc EXCEPT ![h] = "awaiting"]
          /\ UNCHANGED reveal_idx
  /\ UNCHANGED <<ss_vars, aux_vars, reg_vars, env_vars, processed_computations,
                 active_computations, init_confirmations, received_db, hc_pc, timer,
                 dl_write, late_share, light_vars>>

\* the reveal_response of s reaches the requester h: HeavyNode.handle_reveal_response
\* up to the await of update_computation_result in _attempt_final_reconstruction
handle_reveal_response(h, s) ==
  /\ rr[s].pc = "responding"
  /\ h = rr[s].requester
  /\ s \in users /\ h \in users
  /\ IF ~HasAggregator(h)
     THEN rr' = [rr EXCEPT ![s] = [IdleReveal EXCEPT !.pc = "ok"]]
          /\ UNCHANGED active_computations
     ELSE LET a == add_partial_sum_from_heavy_node(Aggregator(h), s, rr[s].partial_sum)
          IN /\ active_computations' =
                  [active_computations EXCEPT ![h] = DictSet(@, comp_id, a)]
             /\ IF can_perform_final_reconstruction(h, a) /\ meets_anonymity_threshold(a)
                THEN rr' = [rr EXCEPT ![s] =
                              [IdleReveal EXCEPT
                                 !.pc = "writing",
                                 !.requester = h,
                                 !.final_result = compute_final_result(a),
                                 !.total_participants = get_total_participants(a)]]
                ELSE IF can_perform_final_reconstruction(h, a)
                \* compute_final_result raises ValueError; the except clause
                \* raises AttributeError: a 500 for the secondary
                THEN rr' = [rr EXCEPT ![s] = [IdleReveal EXCEPT !.pc = "error"]]
                ELSE rr' = [rr EXCEPT ![s] = [IdleReveal EXCEPT !.pc = "ok"]]
  /\ UNCHANGED <<ss_vars, aux_vars, reg_vars, env_vars, processed_computations,
                 init_confirmations, received_db, hc_pc, timer, dl_pc, reveal_idx,
                 dl_write, late_share, light_vars>>

\* _attempt_final_reconstruction, called by handle_reveal_response, after the
\* await: the result is stored and the aggregator deleted. A KeyError of the
\* del ends in the AttributeError of the except clause: the result stays stored.
reveal_response_stores(h, s) ==
  /\ rr[s].pc = "writing"
  /\ h = rr[s].requester
  /\ h \in users
  /\ StoreResult(h, "handle_reveal_response", rr[s].final_result,
                 rr[s].total_participants)
  /\ active_computations' = [active_computations EXCEPT ![h] = DictDel(@, comp_id)]
  /\ rr' = [rr EXCEPT ![s] = [IdleReveal EXCEPT !.pc = "ok"]]
  /\ UNCHANGED <<ss_vars, aux_vars, users, env_vars, processed_computations,
                 init_confirmations, received_db, hc_pc, timer, dl_pc, reveal_idx,
                 dl_write, late_share, light_vars>>

\* request_response returns the secondary's reply {'status': 'ok'}
reveal_request_returns(h) ==
  /\ dl_pc[h] = "awaiting"
  /\ h \in users
  /\ rr[RevealTarget(h)].pc \in {"ok", "error"}
  /\ RevealAdvance(h)
  /\ UNCHANGED <<ss_vars, aux_vars, reg_vars, env_vars, processed_computations,
                 active_computations, init_confirmations, received_db, hc_pc, timer,
                 dl_write, rr, late_share, light_vars>>

\* request_response gives up (response_timeout, or the connection breaks)
\* while the secondary's handler is still running: it returns None
reveal_request_times_out(h) ==
  /\ dl_pc[h] = "awaiting"
  /\ h \in users
  /\ rr[RevealTarget(h)].pc \in {"responding", "writing"}
  /\ RevealAdvance(h)
  /\ UNCHANGED <<ss_vars, aux_vars, reg_vars, env_vars, processed_computations,
                 active_computations, init_confirmations, received_db, hc_pc, timer,
                 dl_write, rr, late_share, light_vars>>

\* asyncio.sleep(2.0) ends: _attempt_final_reconstruction up to its await
attempt_final_reconstruction(h) ==
  /\ dl_pc[h] = "grace"
  /\ h \in users
  /\ IF ~HasAggregator(h) \/ ~is_primary_heavy_node(h)
     THEN dl_pc' = [dl_pc EXCEPT ![h] = "returned"] /\ UNCHANGED dl_write
     ELSE IF ~can_perform_final_reconstruction(h, Aggregator(h))
             \/ ~meets_anonymity_threshold(Aggregator(h))
          \* update_computation_status raises AttributeError in the try block,
          \* again in `except Exception`, and again in the except clause of
          \* _initiate_reveal_process: no status is stored, no aggregator deleted
          THEN dl_pc' = [dl_pc EXCEPT ![h] = "raised_missing"] /\ UNCHANGED dl_write
          ELSE /\ dl_pc' = [dl_pc EXCEPT ![h] = "writing"]
               /\ dl_write' = [final_result |-> compute_final_result(Aggregator(h)),
                               total_participants |->
                                  get_total_participants(Aggregator(h))]
  /\ UNCHANGED <<ss_vars, aux_vars, reg_vars, env_vars, processed_computations,
                 active_computations, init_confirmations, received_db, hc_pc, timer,
                 reveal_idx, rr, late_share, light_vars>>

\* the post-grace _attempt_final_reconstruction after its await: the result
\* is stored, then `del self.active_computations[comp_id]`
final_reconstruction_stores(h) ==
  /\ dl_pc[h] = "writing"
  /\ h \in users
  /\ StoreResult(h, "_initiate_reveal_process", dl_write.final_result,
                 dl_write.total_participants)
  /\ active_computations' = [active_computations EXCEPT ![h] = DictDel(@, comp_id)]
  /\ dl_pc' = [dl_pc EXCEPT ![h] = IF HasAggregator(h) THEN "returned" ELSE "raised"]
  /\ UNCHANGED <<ss_vars, aux_vars, users, env_vars, processed_computations,
                 init_confirmations, received_db, hc_pc, timer, reveal_idx, dl_write,
                 rr, late_share, light_vars>>

\* ----------------------------------- BaseNode.handle_message, further traffic
\* Messages beyond those of the broadcast and of the share distribution:
\* duplicates, messages to nodes without state, malformed ones.
Msg(kind, to, from, value, reply) ==
  [kind |-> kind, to |-> to, from |-> from, value |-> value, reply |-> reply]

Delivered(kind, to, from, value, reply) ==
  /\ Len(m_log) < MaxMessages
  /\ m_log' = Append(m_log, Msg(kind, to, from, value, reply))

\* the share values such a message carries: in range and just out of it
InjectedValues == {0, MODULUS - 1, MODULUS}

\* type "share": share(comp_id, sender_uid, share_value) handled at h
deliver_share(h, sender_uid, share_value) ==
  /\ h \in users
  /\ handle_share_at(h, sender_uid, share_value)
  /\ Delivered("share", h, ToString(sender_uid), share_value,
               share_reply(h, share_value))
  /\ UNCHANGED <<ss_vars, priv, send_vars, ext_vars, reg_vars, env_vars, processed_computations,
                 init_confirmations, hc_pc, timer, dl_pc, reveal_idx, dl_write, rr,
                 light_vars>>

\* type "computation": the descriptor handled at heavy node h once more, or
\* at a heavy node the descriptor does not name (the first delivery to a
\* named node is handle_computation above; the init wait of the first heavy
\* node is not followed here)
deliver_computation(h) ==
  /\ h \in users
  /\ h \in Heavy => comp_id \in processed_computations[h]
  /\ IF heavy_already_processed(h)
     THEN UNCHANGED <<processed_computations, active_computations,
                      init_confirmations, timer>>
     ELSE /\ processed_computations' =
               [processed_computations EXCEPT ![h] = @ \cup {comp_id}]
          /\ IF ~is_designated(h)
             THEN UNCHANGED <<active_computations, init_confirmations, timer>>
             ELSE /\ initialize_aggregation(h)
                  /\ IF h # first_heavy
                     THEN send_init_confirmation(h)
                     ELSE init_confirmations' =
                            [init_confirmations EXCEPT ![h] = DictSet(@, comp_id, {})]
                  /\ schedule_aggregation(h)
  /\ Delivered("computation", h, "", 0, "ok")
  /\ UNCHANGED <<ss_vars, priv, send_vars, ext_vars, reg_vars, env_vars, received_db, hc_pc,
                 dl_pc, reveal_idx, dl_write, rr, late_share, light_vars>>

\* type "computation" at light node p after the broadcast's delivery
deliver_computation_light(p) ==
  /\ l_pc[p] # "idle"
  /\ IF light_already_processed(p)
     THEN UNCHANGED light_vars
     ELSE /\ light_process(p)
          /\ l_idx' = [l_idx EXCEPT ![p] = 1]
  /\ Delivered("computation_light", ToString(p), "", 0, "ok")
  /\ UNCHANGED <<ss_vars, priv, send_vars, ext_vars, reg_vars, env_vars, heavy_vars>>

\* the required fields a malformed descriptor may lack
MissingFields == {"comp_id", "heavy_node_1"}

\* type "computation" with a payload that lacks a field: HeavyNode.
\* handle_computation runs until the lookup of that field raises KeyError
deliver_malformed_computation(h, missing) ==
  /\ h \in users
  /\ IF missing = "comp_id"
     THEN \* computation['comp_id'] raises at once
          /\ UNCHANGED processed_computations
          /\ Delivered("malformed", h, "", 0, "error")
     ELSE IF heavy_already_processed(h)
     THEN /\ UNCHANGED processed_computations
          /\ Delivered("malformed", h, "", 0, "ok")
     ELSE \* processed_computations.add precedes computation['heavy_node_1']
          /\ processed_computations' =
               [processed_computations EXCEPT ![h] = @ \cup {comp_id}]
          /\ Delivered("malformed", h, "", 0, "error")
  /\ UNCHANGED <<ss_vars, priv, send_vars, ext_vars, reg_vars, env_vars, active_computations,
                 init_confirmations, received_db, hc_pc, timer, dl_pc, reveal_idx,
                 dl_write, rr, late_share, light_vars>>

\* a type handle_message does not know: the last return of handle_message
deliver_unknown_type(h) ==
  /\ h \in users
  /\ Delivered("unknown", h, "", 0, "ok")
  /\ UNCHANGED <<ss_vars, priv, send_vars, ext_vars, proto_vars>>

\* type "reveal_request" at a heavy node that has no aggregator for comp_id
deliver_reveal_request(h) ==
  /\ h \in users
  /\ ~HasAggregator(h)
  /\ Delivered("reveal_request", h, "", 0, "error")
  /\ UNCHANGED <<ss_vars, priv, send_vars, ext_vars, proto_vars>>

\* type "reveal_response" with partial_sum from sender s handled at h, apart
\* from the reveal loop of h: handle_reveal_response and, when the partial
\* sums are complete, _attempt_final_reconstruction to its end
deliver_reveal_response(h, s, partial_sum) ==
  /\ h \in users
  /\ s # h
  /\ IF ~HasAggregator(h)
     THEN /\ Delivered("reveal_response", h, s, partial_sum, "ok")
          /\ UNCHANGED <<active_computations, computations, registry_writes>>
     ELSE LET a == add_partial_sum_from_heavy_node(Aggregator(h), s, partial_sum)
          IN IF can_perform_final_reconstruction(h, a) /\ meets_anonymity_threshold(a)
             THEN /\ StoreResult(h, "handle_reveal_response",
                                 compute_final_result(a), get_total_participants(a))
                  /\ active_computations' =
                       [active_computations EXCEPT ![h] = DictDel(@, comp_id)]
                  /\ Delivered("reveal_response", h, s, partial_sum, "ok")
             ELSE /\ active_computations' =
                       [active_computations EXCEPT ![h] = DictSet(@, comp_id, a)]
                  /\ UNCHANGED <<computations, registry_writes>>
                  \* complete but below the threshold: the ValueError of
                  \* compute_final_result, then the AttributeError of the
                  \* except clause, a 500
                  /\ Delivered("reveal_response", h, s, partial_sum,
                               IF can_perform_final_reconstruction(h, a)
                               THEN "error" ELSE "ok")
  /\ UNCHANGED <<ss_vars, priv, send_vars, ext_vars, users, env_vars,
                 processed_computations, init_confirmations, received_db, hc_pc,
                 timer, dl_pc, reveal_idx, dl_write, rr, late_share, light_vars>>

\* ======================================================== messaging.py
\* MessageProtocol.MAX_RETRIES
MAX_RETRIES == 3
\* MessageProtocol.RETRY_DELAY, in seconds
RETRY_DELAY == 1

\* how one `session.post` of send_message can end
PostOutcomes == {"200", "non200", "ClientConnectorError", "TimeoutError", "Exception"}

needs_backoff_wrong(attempt) == attempt < MAX_RETRIES
\* `if attempt < MessageProtocol.MAX_RETRIES - 1` before the sleep
needs_backoff(attempt) == attempt < MAX_RETRIES - 1

\* a caller calls send_message, directly or through request_response
send_begin ==
  /\ snd_pc = "idle"
  /\ \E caller \in {"send_message", "request_response"} : snd_caller' = caller
  /\ snd_pc' = "post"
  /\ snd_attempt' = 0
  /\ UNCHANGED <<ss_vars, proto_vars, priv, msg_vars, ext_vars, snd_log, snd_result>>

\* one turn of `for attempt in range(MAX_RETRIES)` up to the end of its try
\* statement: status 200 returns the reply; any other status is logged; the
\* three except clauses log
send_post ==
  /\ snd_pc = "post"
  /\ \E outcome \in PostOutcomes :
       /\ snd_log' = Append(snd_log, [ev |-> "post", attempt |-> snd_attempt,
                                      outcome |-> outcome, delay |-> 0])
       /\ IF outcome = "200"
          THEN snd_pc' = "done" /\ snd_result' = "reply"
          ELSE snd_pc' = "failed" /\ UNCHANGED snd_result
  /\ UNCHANGED <<ss_vars, proto_vars, priv, msg_vars, ext_vars, snd_attempt, snd_caller>>

\* after a turn that did not return: the sleep before the next turn, then the
\* next turn or the end of the loop
send_next_attempt ==
  /\ snd_pc = "failed"
  /\ snd_log' = IF needs_backoff(snd_attempt)
                THEN Append(snd_log, [ev |-> "sleep", attempt |-> snd_attempt,
                                      outcome |-> "none",
                                      delay |-> RETRY_DELAY * (snd_attempt + 1)])
                ELSE snd_log
  /\ snd_attempt' = snd_attempt + 1
  /\ snd_pc' = IF snd_attempt + 1 < MAX_RETRIES THEN "post" ELSE "exhausted"
  /\ UNCHANGED <<ss_vars, proto_vars, priv, msg_vars, ext_vars, snd_result, snd_caller>>

\* `raise ConnectionError(...)` after the loop; request_response catches it
\* and returns None
send_raises ==
  /\ snd_pc = "exhausted"
  /\ snd_pc' = "done"
  /\ snd_result' = IF snd_caller = "request_response" THEN "None" ELSE "ConnectionError"
  /\ UNCHANGED <<ss_vars, proto_vars, priv, msg_vars, ext_vars, snd_attempt, snd_log, snd_caller>>

\* ----------------------- HeavyNode._wait_for_heavy_node_confirmations, poll by poll
\* `for attempt in range(30)`
INIT_POLLS == 30

WaitInit ==
  /\ hc_polls = 0
  /\ hc_exit = "none"

\* self.init_confirmations[comp_id] at h, empty where the dict has no such key
ConfirmedAt(h) ==
  IF comp_id \in DOMAIN init_confirmations[h] THEN init_confirmations[h][comp_id] ELSE {}

all_confirmed_wrong == FALSE
\* expected_confirmations.issubset(self.init_confirmations[comp_id])
all_confirmed ==
  {heavy_nodes[i] : i \in 2..NUM_SHARES} \subseteq ConfirmedAt(first_heavy)

\* one turn of the loop that finds a confirmation missing: asyncio.sleep(0.1)
wait_for_heavy_node_confirmations_sleeps ==
  /\ hc_pc = "waiting"
  /\ hc_polls < INIT_POLLS
  /\ ~all_confirmed
  /\ hc_polls' = hc_polls + 1
  /\ UNCHANGED <<ss_vars, proto_vars, priv, msg_vars, send_vars, gather_vars,
                 registry_vars, shutdown_vars, intake_vars, pool_vars, hc_exit>>

\* the wait returns, from a turn that finds all confirmed or past the last
\* turn of the loop; handle_computation schedules the deadline task and replies
wait_for_heavy_node_confirmations_ends ==
  /\ hc_pc = "waiting"
  /\ IF hc_polls < INIT_POLLS
     THEN all_confirmed /\ hc_exit' = "confirmed"
     ELSE hc_exit' = "expired"
  /\ hc_pc' = "done"
  /\ schedule_aggregation(first_heavy)
  /\ BroadcastAdvance
  /\ UNCHANGED <<ss_vars, priv, msg_vars, send_vars, gather_vars, registry_vars,
                 shutdown_vars, intake_vars, pool_vars, hc_polls, reg_vars, deadline_passed,
                 processed_computations, active_computations, init_confirmations,
                 received_db, dl_pc, reveal_idx, dl_write, rr, late_share, light_vars>>

\* type "computation" reaches the secondary h from a sender other than the
\* running broadcast_computation (the descriptor submitted once more):
\* HeavyNode.handle_computation at h
descriptor_from_elsewhere(h) ==
  /\ h \in users
  /\ h # first_heavy
  /\ IF heavy_already_processed(h)
     THEN UNCHANGED <<processed_computations, active_computations,
                      init_confirmations, timer>>
     ELSE /\ processed_computations' =
               [processed_computations EXCEPT ![h] = @ \cup {comp_id}]
          /\ initialize_aggregation(h)
          /\ send_init_confirmation(h)
          /\ schedule_aggregation(h)
  /\ Delivered("computation", h, "", 0, "ok")
  /\ UNCHANGED <<ss_vars, priv, send_vars, ext_vars, reg_vars, env_vars, received_db,
                 hc_pc, dl_pc, reveal_idx, dl_write, rr, late_share, light_vars>>

\* ------------------------------------- HeavyNode.handle_share, step by step
\* handle_share awaits db.add_share before it calls aggregator.add_share: the
\* event loop runs other handlers and tasks of the node in between.
IntakeInit == intake = [h \in HeavyNodes |-> {}]

\* handle_share at h to the return of `await self.db.add_share(...)`
share_db_write(h, sender_uid, share_value) ==
  /\ h \in users
  /\ HasAggregator(h)
  /\ <<sender_uid, share_value>> \notin intake[h]
  /\ received_db' = [received_db EXCEPT ![h] =
                       db_add_share(@, sender_uid, share_value)]
  /\ intake' = [intake EXCEPT ![h] = @ \cup {<<sender_uid, share_value>>}]
  /\ UNCHANGED <<ss_vars, priv, msg_vars, send_vars, gather_vars, registry_vars,
                 shutdown_vars, init_vars, pool_vars, reg_vars, env_vars, processed_computations,
                 active_computations, init_confirmations, hc_pc, timer, dl_pc,
                 reveal_idx, dl_write, rr, late_share, light_vars>>

\* the rest of that call: self.active_computations[comp_id].add_share(...)
share_memory_add(h, sender_uid, share_value) ==
  /\ <<sender_uid, share_value>> \in intake[h]
  /\ intake' = [intake EXCEPT ![h] = @ \ {<<sender_uid, share_value>>}]
  /\ IF HasAggregator(h) /\ verify_share_range(share_value)
     THEN /\ active_computations' =
               [active_computations EXCEPT ![h] =
                  DictSet(@, comp_id,
                          add_share(Aggregator(h), sender_uid, share_value))]
          /\ late_share' = (late_share \/ timer[h] = "fired")
     ELSE \* KeyError or ValueError: a 500
          UNCHANGED <<active_computations, late_share>>
  /\ UNCHANGED <<ss_vars, priv, msg_vars, send_vars, gather_vars, registry_vars,
                 shutdown_vars, init_vars, pool_vars, reg_vars, env_vars, processed_computations,
                 init_confirmations, received_db, hc_pc, timer, dl_pc,
                 reveal_idx, dl_write, rr, light_vars>>

\* ------------------------------------- BaseNode.cleanup, NodeManager.run_node
\* A heavy node is shut down while its deadline task sleeps.  cleanup cancels
\* no task; the tasks of the node end when its event loop is closed, which
\* is after run_node returned (a node started by FormixNetwork._create_node
\* shares the loop of the network, which goes on).
ShutdownInit ==
  /\ n_status = [h \in HeavyNodes |-> "ACTIVE"]
  /\ n_loop = [h \in HeavyNodes |-> "running"]

\* shutdown_event is set, start() goes on to cleanup: self.status = STOPPING
shutdown_signal(h) ==
  /\ n_status[h] = "ACTIVE"
  /\ timer[h] = "armed"
  /\ n_status' = [n_status EXCEPT ![h] = "STOPPING"]
  /\ UNCHANGED <<ss_vars, proto_vars, priv, msg_vars, send_vars, gather_vars,
                 registry_vars, intake_vars, init_vars, pool_vars, n_loop>>

\* cleanup to its end: site and runner stopped, remove_node, the node
\* directory removed, self.status = STOPPED
cleanup_finishes(h) ==
  /\ n_status[h] = "STOPPING"
  /\ n_status' = [n_status EXCEPT ![h] = "STOPPED"]
  /\ users' = users \ {h}
  /\ received_db' = [received_db EXCEPT ![h] = {}]
  /\ UNCHANGED <<ss_vars, priv, msg_vars, send_vars, gather_vars, registry_vars, intake_vars, init_vars, pool_vars,
                 n_loop, computations, registry_writes, env_vars,
                 processed_computations, active_computations, init_confirmations,
                 hc_pc, timer, dl_pc, reveal_idx, dl_write, rr, late_share, light_vars>>

\* run_node: start() has returned, `finally: await node.cleanup()` runs
\* cleanup a second time
run_node_finally(h) ==
  /\ n_status[h] = "STOPPED"
  /\ n_loop[h] = "running"
  /\ n_loop' = [n_loop EXCEPT ![h] = "finally"]
  /\ n_status' = [n_status EXCEPT ![h] = "STOPPING"]
  /\ UNCHANGED <<ss_vars, proto_vars, priv, msg_vars, send_vars, gather_vars,
                 registry_vars, intake_vars, init_vars, pool_vars>>

\* run_node has returned and the loop is closed: the pending tasks end
event_loop_closes(h) ==
  /\ n_status[h] = "STOPPED"
  /\ n_loop[h] = "finally"
  /\ n_loop' = [n_loop EXCEPT ![h] = "closed"]
  /\ timer' = [timer EXCEPT ![h] = IF @ = "armed" THEN "cancelled" ELSE @]
  /\ UNCHANGED <<ss_vars, priv, msg_vars, send_vars, gather_vars, registry_vars, intake_vars, init_vars, pool_vars,
                 n_status, reg_vars, env_vars, processed_computations,
                 active_computations, init_confirmations, received_db, hc_pc, dl_pc,
                 reveal_idx, dl_write, rr, late_share, light_vars>>

\* the sleep of the deadline task ends at a node whose cleanup has begun and
\* whose loop still runs: _process_at_deadline as at any other time
process_at_deadline_stopped(h) ==
  /\ h \notin users
  /\ n_loop[h] # "closed"
  /\ deadline_task(h)
  /\ UNCHANGED <<ss_vars, aux_vars>>

\* _initiate_reveal_process at a primary that is no longer in the registry:
\* each secondary answers 'Requester not found' (or has no aggregator), the
\* grace sleep passes, _attempt_final_reconstruction finds the partial sums
\* missing and ends in the AttributeError of update_computation_status
reveal_process_stopped(h) ==
  /\ h \notin users
  /\ n_loop[h] # "closed"
  /\ dl_pc[h] = "reveal"
  /\ dl_pc' = [dl_pc EXCEPT ![h] = "raised_missing"]
  /\ UNCHANGED <<ss_vars, aux_vars, reg_vars, env_vars, processed_computations,
                 active_computations, init_confirmations, received_db, hc_pc, timer,
                 reveal_idx, dl_write, rr, late_share, light_vars>>

\* ------------------------------------- NetworkDatabase: the users table
\* `max_port = row[0] if row[0] else 7999`
BASE_PORT == 7999

\* uids generate_uid may give, and uids and ports callers of add_node pass
Uids == {"u1", "u2"}
Ports == (BASE_PORT + 1)..(BASE_PORT + 2)
Creators == 1..NumCreators

UserRow(uid, port) == [uid |-> uid, port |-> port]
RowUids(table) == {r.uid : r \in table}
RowPorts(table) == {r.port : r \in table}

SetMax(S) == CHOOSE x \in S : \A y \in S : y <= x

insert_allowed_wrong(table, uid, port) == uid \notin RowUids(table)
\* the INSERT succeeds: uid TEXT PRIMARY KEY, port INTEGER UNIQUE
insert_allowed(table, uid, port) ==
  uid \notin RowUids(table) /\ port \notin RowPorts(table)

\* NetworkDatabase.add_node: the table after the call (IntegrityError: as before)
add_node(table, uid, port) ==
  IF insert_allowed(table, uid, port) THEN table \cup {UserRow(uid, port)} ELSE table

\* NetworkDatabase.remove_node: DELETE FROM users WHERE uid = ?
remove_node(table, uid) == {r \in table : r.uid # uid}

\* NetworkDatabase.get_next_available_port: MAX(port) + 1
get_next_available_port(table) ==
  (IF table = {} THEN BASE_PORT ELSE SetMax(RowPorts(table))) + 1

IdleCreator == [pc |-> "idle", uid |-> "", port |-> 0]

RegistryInit ==
  /\ r_users = {}
  /\ r_creator = [c \in Creators |-> IdleCreator]
  /\ r_alloc = <<>>
  /\ r_last = [op |-> "none", uid |-> "", port |-> 0, result |-> FALSE]

\* FormixNetwork._create_node up to the await of add_node: generate_uid and
\* get_next_available_port
create_node_get_port(c) ==
  /\ r_creator[c].pc = "idle"
  /\ Len(r_alloc) < MaxAllocs
  /\ \E uid \in Uids :
       LET port == get_next_available_port(r_users)
       IN /\ r_creator' = [r_creator EXCEPT ![c] =
                             [pc |-> "got", uid |-> uid, port |-> port]]
          /\ r_alloc' = Append(r_alloc, port)
  /\ UNCHANGED <<ss_vars, proto_vars, priv, msg_vars, send_vars, gather_vars, shutdown_vars, intake_vars, init_vars, pool_vars,
                 r_users, r_last>>

\* FormixNetwork._create_node: add_node(uid, node_type, port); RuntimeError
\* when it returns False
create_node_add(c) ==
  /\ r_creator[c].pc = "got"
  /\ LET uid == r_creator[c].uid
         port == r_creator[c].port
     IN /\ r_users' = add_node(r_users, uid, port)
        /\ r_last' = [op |-> "add_node", uid |-> uid, port |-> port,
                      result |-> insert_allowed(r_users, uid, port)]
  /\ r_creator' = [r_creator EXCEPT ![c] = IdleCreator]
  /\ UNCHANGED <<ss_vars, proto_vars, priv, msg_vars, send_vars, gather_vars, shutdown_vars, intake_vars, init_vars, pool_vars, r_alloc>>

\* add_node(uid, node_type, port) called with a uid and a port of the
\* caller's choice; BaseNode.start does so when get_node finds no row
register_node(uid, port) ==
  /\ r_users' = add_node(r_users, uid, port)
  /\ r_last' = [op |-> "add_node", uid |-> uid, port |-> port,
                result |-> insert_allowed(r_users, uid, port)]
  /\ UNCHANGED <<ss_vars, proto_vars, priv, msg_vars, send_vars, gather_vars, shutdown_vars, intake_vars, init_vars, pool_vars,
                 r_creator, r_alloc>>

\* remove_node(uid): `return cursor.rowcount > 0`
unregister_node(uid) ==
  /\ r_users' = remove_node(r_users, uid)
  /\ r_last' = [op |-> "remove_node", uid |-> uid, port |-> 0,
                result |-> (uid \in RowUids(r_users))]
  /\ UNCHANGED <<ss_vars, proto_vars, priv, msg_vars, send_vars, gather_vars, shutdown_vars, intake_vars, init_vars, pool_vars,
                 r_creator, r_alloc>>

\* ------------------------------------- MessageProtocol.broadcast
\* what a send_message call ends with, and what gather keeps for it
\* (return_exceptions=True: the exception object itself)
SendFates == {"reply", "ConnectionError"}

semaphore_free_wrong(value) == TRUE
\* asyncio.Semaphore: acquire passes while the value is positive
semaphore_free(value) == value > 0

\* the bounded_task coroutines inside their `async with semaphore`
InFlight == {i \in DOMAIN g_task : g_task[i] = "sending"}

GatherInit ==
  /\ g_pc = "idle"
  /\ g_ports = <<>>
  /\ g_max = 1
  /\ g_sem = 0
  /\ g_task = <<>>
  /\ g_results = <<>>
  /\ g_return = <<>>

\* broadcast(ports, message, max_concurrent) up to the gather; `if not ports`
broadcast_begin ==
  /\ g_pc = "idle"
  /\ \E n \in 0..MaxPorts, mc \in 1..MaxConcurrent :
       \E ports \in [1..n -> SendFates] :
         /\ g_ports' = ports
         /\ g_max' = mc
         /\ IF n = 0
            THEN /\ g_pc' = "returned"
                 /\ g_return' = <<>>
                 /\ UNCHANGED <<g_sem, g_task, g_results>>
            ELSE /\ g_pc' = "gathering"
                 /\ g_sem' = mc
                 /\ g_task' = [i \in 1..n |-> "waiting"]
                 /\ g_results' = [i \in 1..n |-> "none"]
                 /\ UNCHANGED g_return
  /\ UNCHANGED <<ss_vars, proto_vars, priv, msg_vars, send_vars, registry_vars, shutdown_vars, intake_vars, init_vars, pool_vars>>

\* bounded_task i enters `async with semaphore` and starts its send_message
bounded_task_enter(i) ==
  /\ g_pc = "gathering"
  /\ i \in DOMAIN g_task
  /\ g_task[i] = "waiting"
  /\ semaphore_free(g_sem)
  /\ g_sem' = g_sem - 1
  /\ g_task' = [g_task EXCEPT ![i] = "sending"]
  /\ UNCHANGED <<ss_vars, proto_vars, priv, msg_vars, send_vars, registry_vars, shutdown_vars, intake_vars, init_vars, pool_vars,
                 g_pc, g_ports, g_max, g_results, g_return>>

\* its send_message returns or raises; the semaphore is released either way
bounded_task_exit(i) ==
  /\ g_pc = "gathering"
  /\ i \in DOMAIN g_task
  /\ g_task[i] = "sending"
  /\ g_sem' = g_sem + 1
  /\ g_task' = [g_task EXCEPT ![i] = "done"]
  /\ g_results' = [g_results EXCEPT ![i] = g_ports[i]]
  /\ UNCHANGED <<ss_vars, proto_vars, priv, msg_vars, send_vars, registry_vars, shutdown_vars, intake_vars, init_vars, pool_vars,
                 g_pc, g_ports, g_max, g_return>>

\* asyncio.gather returns when every task is done; broadcast returns results
gather_returns ==
  /\ g_pc = "gathering"
  /\ \A i \in DOMAIN g_task : g_task[i] = "done"
  /\ g_pc' = "returned"
  /\ g_return' = g_results
  /\ UNCHANGED <<ss_vars, proto_vars, priv, msg_vars, send_vars, registry_vars, shutdown_vars, intake_vars, init_vars, pool_vars,
                 g_ports, g_max, g_sem, g_task, g_results>>

\* ------------------------------------- DatabaseConnectionPool, store operations
\* the connections initialize() made: _pool, max_connections of them
Conns == 1..PoolSize
\* the store operations of one process that use the pool, each a closure
\*   conn = await self._pool.acquire(); try: ... finally: await self._pool.release(conn)
Ops == 1..NumOps

\* after initialize(): every connection appended to _pool and to _available
PoolInit ==
  /\ p_available = [i \in 1..PoolSize |-> i]
  /\ p_pc = [o \in Ops |-> "idle"]
  /\ p_conn = [o \in Ops |-> NULL]
  /\ p_outcome = [o \in Ops |-> "none"]

\* retry_db_operation calls the closure: first time, next attempt, or a new call
operation_begins(o) ==
  /\ p_pc[o] = "idle"
  /\ p_pc' = [p_pc EXCEPT ![o] = "acquire"]
  /\ UNCHANGED <<p_available, p_conn, p_outcome>>
  /\ UNCHANGED <<ss_vars, proto_vars, priv, msg_vars, send_vars, gather_vars,
                 registry_vars, shutdown_vars, intake_vars, init_vars>>

\* acquire, a turn of the loop that finds _available non-empty: the first turn,
\* or the turn after a sleep (the lock is free once the pool is initialized,
\* so waking and testing is one step); pop() takes the last of the list
acquire(o) ==
  /\ p_pc[o] \in {"acquire", "sleep"}
  /\ p_available # <<>>
  /\ p_conn' = [p_conn EXCEPT ![o] = p_available[Len(p_available)]]
  /\ p_available' = SubSeq(p_available, 1, Len(p_available) - 1)
  /\ p_pc' = [p_pc EXCEPT ![o] = "held"]
  /\ UNCHANGED p_outcome
  /\ UNCHANGED <<ss_vars, proto_vars, priv, msg_vars, send_vars, gather_vars,
                 registry_vars, shutdown_vars, intake_vars, init_vars>>

\* acquire, the first turn finds _available empty: asyncio.sleep(0.01); the
\* later turns that find it empty change nothing
acquire_sleeps(o) ==
  /\ p_pc[o] = "acquire"
  /\ p_available = <<>>
  /\ p_pc' = [p_pc EXCEPT ![o] = "sleep"]
  /\ UNCHANGED <<p_available, p_conn, p_outcome>>
  /\ UNCHANGED <<ss_vars, proto_vars, priv, msg_vars, send_vars, gather_vars,
                 registry_vars, shutdown_vars, intake_vars, init_vars>>

\* the try block of the closure ends: it returns, or a statement raises
\* (aiosqlite.OperationalError "database is locked", or any other)
operation_ends(o) ==
  /\ p_pc[o] = "held"
  /\ \E outcome \in {"ok", "raised"} :
       p_outcome' = [p_outcome EXCEPT ![o] = outcome]
  /\ p_pc' = [p_pc EXCEPT ![o] = "finally"]
  /\ UNCHANGED <<p_available, p_conn>>
  /\ UNCHANGED <<ss_vars, proto_vars, priv, msg_vars, send_vars, gather_vars,
                 registry_vars, shutdown_vars, intake_vars, init_vars>>

\* the finally block: release appends conn to _available when conn is in _pool
release(o) ==
  /\ p_pc[o] = "finally"
  /\ p_available' = IF p_conn[o] \in Conns
                      THEN Append(p_available, p_conn[o])
                      ELSE p_available
  /\ p_conn' = [p_conn EXCEPT ![o] = NULL]
  /\ p_pc' = [p_pc EXCEPT ![o] = "idle"]
  /\ UNCHANGED p_outcome
  /\ UNCHANGED <<ss_vars, proto_vars, priv, msg_vars, send_vars, gather_vars,
                 registry_vars, shutdown_vars, intake_vars, init_vars>>

\* ------------------------------------------------------------ specifications
\* nothing delivered besides the protocol's own messages
MsgInit ==
  /\ m_log = <<>>

\* no send_message call running
SendInit ==
  /\ snd_pc = "idle"
  /\ snd_attempt = 0
  /\ snd_log = <<>>
  /\ snd_result = "none"
  /\ snd_caller = "none"

AuxInit ==
  /\ PrivInit /\ MsgInit /\ SendInit /\ GatherInit /\ RegistryInit
  /\ ShutdownInit /\ IntakeInit /\ WaitInit /\ PoolInit

Init ==
  /\ AuxInit
  /\ ShareInit
  /\ ss_num_shares = NUM_SHARES
  /\ \E m \in 1..NumLight : ProtoInitWith(m)

Next ==
  \/ deadline_passes
  \/ \E h \in Heavy : cleanup(h)
  \/ broadcast_heavy_skip
  \/ \E h \in Heavy : handle_computation(h)
  \/ wait_for_heavy_node_confirmations_returns
  \/ broadcast_light
  \/ \E p \in Light : light_handle_computation(p)
  \/ \E p \in Light : send_share_fails(p)
  \/ \E p \in Light : handle_share(p)
  \/ \E h \in Heavy : process_at_deadline(h)
  \/ \E h \in Heavy : reveal_request_fails(h)
  \/ \E h \in Heavy, s \in Heavy : handle_reveal_request(h, s)
  \/ \E h \in Heavy, s \in Heavy : handle_reveal_response(h, s)
  \/ \E h \in Heavy, s \in Heavy : reveal_response_stores(h, s)
  \/ \E h \in Heavy : reveal_request_returns(h)
  \/ \E h \in Heavy : reveal_request_times_out(h)
  \/ \E h \in Heavy : attempt_final_reconstruction(h)
  \/ \E h \in Heavy : final_reconstruction_stores(h)

Spec == Init /\ [][Next]_vars

InitShares ==
  /\ AuxInit
  /\ ShareInit
  /\ ss_num_shares \in 1..MaxShares
  /\ ProtoInitWith(1)

NextShares ==
  \/ (create_shares_begin /\ UNCHANGED <<proto_vars, aux_vars>>)
  \/ (create_shares_random /\ UNCHANGED <<proto_vars, aux_vars>>)
  \/ (create_shares_last /\ UNCHANGED <<proto_vars, aux_vars>>)
  \/ (add_and_reconstruct /\ UNCHANGED <<proto_vars, aux_vars>>)

SpecShares == InitShares /\ [][NextShares]_vars

InitPrivacy ==
  /\ AuxInit
  /\ ShareInit
  /\ ss_num_shares = NUM_SHARES
  /\ ProtoInitWith(1)

NextPrivacy ==
  \/ privacy_choose
  \/ privacy_collect

SpecPrivacy == InitPrivacy /\ [][NextPrivacy]_vars

InitSend ==
  /\ AuxInit
  /\ ShareInit
  /\ ss_num_shares = NUM_SHARES
  /\ ProtoInitWith(1)

NextSend ==
  \/ send_begin
  \/ send_post
  \/ send_next_attempt
  \/ send_raises

SpecSend == InitSend /\ [][NextSend]_vars

InitMessages ==
  /\ AuxInit
  /\ ShareInit
  /\ ss_num_shares = NUM_SHARES
  /\ ProtoInitWith(1)

NextMessages ==
  \/ deadline_passes
  \/ \E h \in Heavy : handle_computation(h)
  \/ wait_for_heavy_node_confirmations_returns
  \/ \E h \in Heavy : process_at_deadline(h)
  \/ \E h \in Heavy, s \in Heavy : handle_reveal_request(h, s)
  \/ \E h \in Heavy, s \in Heavy : handle_reveal_response(h, s)
  \/ \E h \in Heavy, s \in Heavy : reveal_response_stores(h, s)
  \/ \E h \in Heavy : reveal_request_returns(h)
  \/ \E h \in Heavy : attempt_final_reconstruction(h)
  \/ \E h \in HeavyNodes, p \in Light, v \in InjectedValues : deliver_share(h, p, v)
  \/ \E h \in HeavyNodes : deliver_computation(h)
  \/ \E h \in HeavyNodes, f \in MissingFields : deliver_malformed_computation(h, f)
  \/ \E h \in HeavyNodes : deliver_unknown_type(h)
  \/ \E h \in HeavyNodes : deliver_reveal_request(h)

SpecMessages == InitMessages /\ [][NextMessages]_vars

InitParticipants ==
  /\ AuxInit
  /\ ShareInit
  /\ ss_num_shares = NUM_SHARES
  /\ ProtoInitWith(1)

NextParticipants ==
  \/ \E h \in Heavy : handle_computation(h)
  \/ wait_for_heavy_node_confirmations_returns
  \/ broadcast_light
  \/ \E p \in Light : light_handle_computation(p)
  \/ \E p \in Light : handle_share(p)
  \/ \E p \in Light : send_share_fails(p)
  \/ \E p \in Light : deliver_computation_light(p)

SpecParticipants == InitParticipants /\ [][NextParticipants]_vars

InitBroadcast ==
  /\ AuxInit
  /\ ShareInit
  /\ ss_num_shares = NUM_SHARES
  /\ ProtoInitWith(1)

NextBroadcast ==
  \/ broadcast_begin
  \/ \E i \in 1..MaxPorts : bounded_task_enter(i)
  \/ \E i \in 1..MaxPorts : bounded_task_exit(i)
  \/ gather_returns

SpecBroadcast == InitBroadcast /\ [][NextBroadcast]_vars

InitRegistry ==
  /\ AuxInit
  /\ ShareInit
  /\ ss_num_shares = NUM_SHARES
  /\ ProtoInitWith(1)

NextRegistry ==
  \/ \E c \in Creators : create_node_get_port(c)
  \/ \E c \in Creators : create_node_add(c)
  \/ \E uid \in Uids, port \in Ports : register_node(uid, port)
  \/ \E uid \in Uids : unregister_node(uid)

SpecRegistry == InitRegistry /\ [][NextRegistry]_vars

InitReveal ==
  /\ AuxInit
  /\ ShareInit
  /\ ss_num_shares = NUM_SHARES
  /\ ProtoInitWith(1)

NextReveal ==
  \/ deadline_passes
  \/ \E h \in Heavy : handle_computation(h)
  \/ wait_for_heavy_node_confirmations_returns
  \/ \E h \in Heavy, p \in Light : deliver_share(h, p, MODULUS - 1)
  \/ \E h \in Heavy : process_at_deadline(h)
  \/ \E h \in Heavy, s \in Heavy : handle_reveal_request(h, s)
  \/ \E h \in Heavy, s \in Heavy : handle_reveal_response(h, s)
  \/ \E h \in Heavy, s \in Heavy : reveal_response_stores(h, s)
  \/ \E h \in Heavy : reveal_request_returns(h)
  \/ \E h \in Heavy : attempt_final_reconstruction(h)
  \/ \E s \in Heavy : deliver_reveal_response(first_heavy, s, MODULUS - 1)

SpecReveal == InitReveal /\ [][NextReveal]_vars

InitIntake ==
  /\ AuxInit
  /\ ShareInit
  /\ ss_num_shares = NUM_SHARES
  /\ ProtoInitWith(1)

NextIntake ==
  \/ deadline_passes
  \/ \E h \in Heavy : handle_computation(h)
  \/ wait_for_heavy_node_confirmations_returns
  \/ \E h \in Heavy, p \in Light : share_db_write(h, p, MODULUS - 1)
  \/ \E h \in Heavy, p \in Light : share_memory_add(h, p, MODULUS - 1)
  \/ \E h \in Heavy : process_at_deadline(h)

SpecIntake == InitIntake /\ [][NextIntake]_vars

InitInit ==
  /\ AuxInit
  /\ ShareInit
  /\ ss_num_shares = NUM_SHARES
  /\ ProtoInitWith(1)

NextInit ==
  \/ deadline_passes
  \/ \E h \in Heavy : handle_computation(h)
  \/ wait_for_heavy_node_confirmations_sleeps
  \/ wait_for_heavy_node_confirmations_ends
  \/ \E h \in Heavy : descriptor_from_elsewhere(h)
  \/ broadcast_light

SpecInit == InitInit /\ [][NextInit]_vars

InitSubmit ==
  /\ AuxInit
  /\ ShareInit
  /\ ss_num_shares = NUM_SHARES
  /\ ProtoInitWith(1)

NextSubmit ==
  \/ broadcast_send_fails
  \/ \E h \in Heavy : handle_computation(h)
  \/ wait_for_heavy_node_confirmations_returns
  \/ broadcast_light
  \/ \E p \in Light : light_handle_computation(p)
  \/ \E p \in Light : send_share_fails(p)
  \/ \E p \in Light : handle_share(p)

SpecSubmit == InitSubmit /\ [][NextSubmit]_vars

InitShutdown ==
  /\ AuxInit
  /\ ShareInit
  /\ ss_num_shares = NUM_SHARES
  /\ ProtoInitWith(1)

NextShutdown ==
  \/ deadline_passes
  \/ \E h \in Heavy : handle_computation(h)
  \/ wait_for_heavy_node_confirmations_returns
  \/ \E p \in Light : deliver_share(first_heavy, p, MODULUS - 1)
  \/ \E h \in Heavy : process_at_deadline(h)
  \/ \E h \in Heavy : shutdown_signal(h)
  \/ \E h \in Heavy : cleanup_finishes(h)
  \/ \E h \in Heavy : run_node_finally(h)
  \/ \E h \in Heavy : event_loop_closes(h)
  \/ \E h \in Heavy : process_at_deadline_stopped(h)
  \/ \E h \in Heavy : reveal_process_stopped(h)

SpecShutdown == InitShutdown /\ [][NextShutdown]_vars

InitPool ==
  /\ AuxInit
  /\ ShareInit
  /\ ss_num_shares = NUM_SHARES
  /\ ProtoInitWith(1)

NextPool ==
  \/ \E o \in Ops : operation_begins(o)
  \/ \E o \in Ops : acquire(o)
  \/ \E o \in Ops : acquire_sleeps(o)
  \/ \E o \in Ops : operation_ends(o)
  \/ \E o \in Ops : release(o)

SpecPool == InitPool /\ [][NextPool]_vars

\* the event loop runs every task that is ready: an operation that was called
\* takes each of its steps when the step stays possible
FairPool ==
  \A o \in Ops :
    /\ WF_vars(acquire(o))
    /\ WF_vars(acquire_sleeps(o))
    /\ WF_vars(operation_ends(o))
    /\ WF_vars(release(o))

SpecPoolFair == InitPool /\ [][NextPool]_vars /\ FairPool

\* ================================================================== claims
secondaries == Heavy \ {first_heavy}

\* the light nodes that made a value for K and shared it
Contributors == {p \in Light : distribution[p] # <<>>}

\* sum of the contributors' values
RECURSIVE ValueSum(_)
ValueSum(ps) ==
  IF ps = {} THEN 0
  ELSE LET p == CHOOSE x \in ps : TRUE
       IN response_value[p] + ValueSum(ps \ {p})

\* the deadline task of every heavy node has run, and every contributor's
\* three shares were stored, each before the tick of the heavy node it went to
AllSharesBeforeTick ==
  /\ \A h \in Heavy : timer[h] = "fired"
  /\ ~late_share
  /\ \A p \in Contributors : \A h \in Heavy : p \in RowSenders(received_db[h])

\* both handle_reveal_request calls returned {'status': 'ok'}
BothSecondariesAnswered == \A s \in secondaries : rr[s].pc = "ok"

\* C1: if every contributor's three shares were stored before the tick of the
\* heavy node they went to, and both secondaries answered the reveal request,
\* the registry row is completed with the sum of the contributors' values
\* modulo MODULUS
C1_ResultIsSumOfValues ==
  (AllSharesBeforeTick /\ BothSecondariesAnswered)
    => /\ computations.status = "completed"
       /\ computations.result = ValueSum(Contributors) % MODULUS

\* C2: once the status is completed or failed, no step changes the status or
\* the recorded result
C2_TerminalMonotonic ==
  [][computations.status \in {"completed", "failed"}
       => /\ computations'.status = computations.status
          /\ computations'.result = computations.result]_vars

\* C3: a step that makes the status completed is taken while the primary's
\* received_shares holds at least min_participants distinct senders
C3_CompletedMeetsThreshold ==
  [][(computations.status # "completed" /\ computations'.status = "completed")
       => /\ HasAggregator(first_heavy)
          /\ Cardinality(DOMAIN Aggregator(first_heavy).received_shares)
               >= computations.min_participants
          /\ computations'.participants_count >= computations.min_participants]_vars

C3_Witness ==
  /\ computations.status = "completed"
  /\ computations.min_participants = NumLight
  /\ computations.participants_count = NumLight

\* C4: after the deadline task of a heavy node has run, no step changes the
\* received_shares of its aggregator
C4_DeadlineIsHardBoundary ==
  [][\A h \in Heavy :
       (timer[h] = "fired" /\ HasAggregator(h) /\ comp_id \in DOMAIN active_computations'[h])
         => active_computations'[h][comp_id].received_shares
              = Aggregator(h).received_shares]_vars

\* C5: when the grace sleep of the primary ends and the partial sum of some
\* secondary is missing, the step stores the status failed and deletes the
\* primary's aggregator
C5_MissingPartialSumFails ==
  [][(/\ dl_pc[first_heavy] = "grace"
      /\ dl_pc'[first_heavy] # "grace"
      /\ HasAggregator(first_heavy)
      /\ ~can_perform_final_reconstruction(first_heavy, Aggregator(first_heavy)))
       => /\ computations'.status = "failed"
          /\ comp_id \notin DOMAIN active_computations'[first_heavy]]_vars

\* C6: when the deadline task of a heavy node runs with fewer than
\* min_participants senders in received_shares, the step deletes its
\* aggregator, starts no reveal and, at the primary, stores the status failed
C6_InsufficientParticipantsFails ==
  [][\A h \in Heavy :
       (/\ timer[h] = "armed"
        /\ timer'[h] = "fired"
        /\ HasAggregator(h)
        /\ ~can_aggregate(Aggregator(h)))
         => /\ comp_id \notin DOMAIN active_computations'[h]
            /\ dl_pc'[h] # "reveal"
            /\ (h = first_heavy => computations'.status = "failed")]_vars

C8_EventuallyTerminal ==
  \/ ENABLED Next
  \/ /\ (comp_id \in processed_computations[first_heavy])
          => computations.status \in {"completed", "failed"}
     /\ \A h \in users : (comp_id \in processed_computations[h]) => timer[h] = "fired"

\* C9: every vector create_shares(v, N) returns has N shares, each in
\* [0, MODULUS), and reconstruct_secret of it is v
C9_SplitCorrect ==
  /\ ss_pc # "assert_failed"
  /\ \A j \in 1..Len(ss_family) :
       /\ Len(ss_family[j]) = ss_num_shares
       /\ \A i \in 1..Len(ss_family[j]) : verify_share_range(ss_family[j][i])
       /\ reconstruct_secret(ss_family[j]) = ss_secrets[j]

C9_Witness ==
  /\ Len(ss_family) = MaxFamily
  /\ ss_num_shares = MaxShares
  /\ ss_secrets[1] = MODULUS - 1
  /\ ss_secrets[2] = 0
  /\ SeqSum(ss_family[1]) >= MODULUS

\* C10: reconstruct_secret(add_shares(vectors)) is the sum of the secrets
\* modulo MODULUS
C10_Linearity ==
  ss_pc = "added" => ss_reconstructed = SeqSum(ss_secrets) % MODULUS

C10_Witness ==
  /\ ss_pc = "added"
  /\ Len(ss_family) = MaxFamily
  /\ SeqSum(ss_secrets) >= MODULUS

\* C11: for any two secrets and any strict subset of the share positions, the
\* value tuples create_shares can put at those positions are the same for both
\* secrets: every tuple over the ring
C11_SplitHidesSecret ==
  priv.pc = "collected"
    => /\ priv.views_a = priv.views_b
       /\ priv.views_a = [priv.positions -> Ring]

C11_Witness ==
  /\ priv.pc = "collected"
  /\ priv.va = 0
  /\ priv.vb = MODULUS - 1
  /\ priv.num_shares = MaxShares
  /\ priv.positions = 2..MaxShares
  /\ Cardinality(priv.views_a) = MODULUS ^ (MaxShares - 1)

\* the shares heavy node h holds in memory for K
MemoryShares(h) == IF HasAggregator(h) THEN Aggregator(h).received_shares ELSE EmptyDict

\* C12: every share a heavy node has stored, in the received_shares of its
\* aggregator and in its durable received_shares table, is in [0, MODULUS);
\* an out-of-range share is stored nowhere
C12_StoredSharesInRange ==
  \A h \in HeavyNodes :
    /\ \A p \in DOMAIN MemoryShares(h) : verify_share_range(MemoryShares(h)[p])
    /\ \A r \in received_db[h] : verify_share_range(r.share_value)

\* the durable table has one row per (comp_id, sender_uid)
OneRowPerSender(table) ==
  \A r1 \in table, r2 \in table :
    (r1.comp_id = r2.comp_id /\ r1.sender_uid = r2.sender_uid) => r1 = r2

C14_LightProcessesOnce ==
  [][\A p \in Light :
       deliver_computation_light(p) =>
         UNCHANGED <<l_processed, response_value, computation_responses,
                     distribution, l_pc, l_idx>>]_vars

\* the descriptor came again while the light node was sending its shares
C14_Witness ==
  \E p \in Light :
    /\ m_log # <<>>
    /\ m_log[Len(m_log)] = Msg("computation_light", ToString(p), "", 0, "ok")
    /\ l_pc[p] = "send"
    /\ l_idx[p] > 1
    /\ comp_id \in DOMAIN computation_responses[p]

\* C15: a further delivery of the descriptor to a named heavy node leaves the
\* aggregation state (received_shares, partial sums), the init confirmations,
\* the deadline timer and the durable shares as they are
C15_HeavyRedeliveryIdempotent ==
  [][\A h \in Heavy :
       deliver_computation(h) =>
         UNCHANGED <<active_computations, init_confirmations, timer,
                     processed_computations, received_db>>]_vars

\* the descriptor came again to the first heavy node, which holds a share
\* and a partial sum of another heavy node
C15_Witness ==
  /\ m_log # <<>>
  /\ m_log[Len(m_log)] = Msg("computation", first_heavy, "", 0, "ok")
  /\ HasAggregator(first_heavy)
  /\ DOMAIN Aggregator(first_heavy).received_shares # {}
  /\ DOMAIN Aggregator(first_heavy).partial_sums_from_other_nodes # {}

\* C16: a heavy node the descriptor does not name never has an aggregation
\* state, a deadline timer or stored shares for K, and a share delivered to
\* a heavy node without aggregation state is stored neither in memory nor in
\* the durable table
C16_OnlyNamedCoordinatorsAccept ==
  [][/\ \A h \in HeavyNodes \ Heavy :
          (~HasAggregator(h) /\ timer[h] = "none" /\ received_db[h] = {})'
     /\ \A h \in HeavyNodes, p \in Light, v \in InjectedValues :
          (~HasAggregator(h) /\ deliver_share(h, p, v)) =>
            UNCHANGED <<active_computations, received_db>>]_vars

\* the heavy node that is not named was given the descriptor and then a share
C16_Witness ==
  \E h \in HeavyNodes \ Heavy :
    /\ Len(m_log) = 2
    /\ m_log[1] = Msg("computation", h, "", 0, "ok")
    /\ m_log[2].kind = "share" /\ m_log[2].to = h /\ m_log[2].reply = "ok"
    /\ comp_id \in processed_computations[h]

\* the step is a message the node rejects: answered with an error, of a type
\* it does not know, or a share for a computation it has no state for
RejectedMessage ==
  /\ Len(m_log') > Len(m_log)
  /\ LET m == m_log'[Len(m_log')]
     IN \/ m.reply = "error"
        \/ m.kind = "unknown"
        \/ (m.kind = "share" /\ ~HasAggregator(m.to))

\* C17: a rejected message leaves the computation state of the nodes as it
\* was: the shares in memory and in the durable table, the processed
\* comp_ids, the partial sums and the registry row
C17_RejectedMessageLeavesState ==
  [][RejectedMessage =>
       UNCHANGED <<active_computations, received_db, processed_computations,
                   computations>>]_vars

\* the positions of snd_log at which a request was posted
Posts == {i \in 1..Len(snd_log) : snd_log[i].ev = "post"}

\* C18: within one send_message call, no request is posted after one that
\* got a reply with a status other than 200
C18_NoRetryAfterErrorReply ==
  \A i \in Posts : snd_log[i].outcome = "non200" => \A j \in Posts : j <= i

\* C19: one send_message call posts at most MAX_RETRIES requests, returns the
\* reply of the first that succeeds and posts nothing after it, sleeps only
\* between two posts, and raises only after MAX_RETRIES posts have failed
C19_AtMostThreeAttempts ==
  /\ Cardinality(Posts) <= MAX_RETRIES
  /\ \A i \in Posts : snd_log[i].outcome = "200"
        => (i = Len(snd_log) /\ snd_pc = "done" /\ snd_result = "reply")
  /\ \A i \in 1..Len(snd_log) : snd_log[i].ev = "sleep"
        => /\ i > 1 /\ snd_log[i - 1].ev = "post"
           /\ (i = Len(snd_log) => snd_pc = "post")
           /\ (i < Len(snd_log) => snd_log[i + 1].ev = "post")
  /\ snd_pc = "done"
        => /\ snd_log[Len(snd_log)].ev = "post"
           /\ (snd_result # "reply"
                 => /\ Cardinality(Posts) = MAX_RETRIES
                    /\ \A i \in Posts : snd_log[i].outcome # "200")

C19_Witness ==
  /\ snd_pc = "done"
  /\ snd_caller = "send_message"
  /\ snd_result = "ConnectionError"
  /\ Len(snd_log) = 2 * MAX_RETRIES - 1
  /\ snd_log[2].delay = RETRY_DELAY
  /\ snd_log[4].delay = 2 * RETRY_DELAY

\* C20: one request_response call posts one request, and gives its caller
\* None when that fails
C20_RequestResponseSingleAttempt ==
  snd_caller = "request_response"
    => /\ Cardinality(Posts) <= 1
       /\ (snd_pc = "done" /\ snd_log[Len(snd_log)].outcome # "200")
             => snd_result = "None"

\* C21: broadcast never has more than max_concurrent sends in flight; it returns
\* one outcome per port, outcome i being that of the send to ports[i], a
\* failed send included; with no ports it returns the empty list
C21_BroadcastBoundedAndOrdered ==
  /\ Cardinality(InFlight) <= g_max
  /\ g_pc = "returned" =>
       /\ Len(g_return) = Len(g_ports)
       /\ \A i \in 1..Len(g_ports) : g_return[i] = g_ports[i]

\* a broadcast over more ports than max_concurrent has returned; the send to
\* the first port failed, the one to the last port did not
C21_Witness ==
  /\ g_pc = "returned"
  /\ Len(g_ports) = MaxPorts
  /\ g_max < Len(g_ports)
  /\ g_return[1] = "ConnectionError"
  /\ g_return[Len(g_ports)] = "reply"

\* no two rows of the users table share a uid or a port
RegistryUnique(table) ==
  \A r1 \in table, r2 \in table : (r1.uid = r2.uid \/ r1.port = r2.port) => r1 = r2

\* C22: no two registered nodes share a uid or a port; add_node returns
\* False and leaves the table as it is when the uid or the port is in use,
\* else it returns True and the row is there; remove_node returns True
\* exactly when the uid was registered, and the uid is gone afterwards
C22_RegistryUniqueness ==
  [][/\ RegistryUnique(r_users)'
     /\ \A uid \in Uids, port \in Ports :
          register_node(uid, port) =>
            IF uid \in RowUids(r_users) \/ port \in RowPorts(r_users)
            THEN r_last'.result = FALSE /\ r_users' = r_users
            ELSE r_last'.result = TRUE /\ r_users' = r_users \cup {UserRow(uid, port)}
     /\ \A uid \in Uids :
          unregister_node(uid) =>
            /\ r_last'.result = (uid \in RowUids(r_users))
            /\ uid \notin RowUids(r_users')]_vars

\* add_node was refused for a uid that is free and a port that is in use
C22_Witness ==
  /\ r_users # {}
  /\ r_last.op = "add_node"
  /\ r_last.result = FALSE
  /\ r_last.uid \notin RowUids(r_users)
  /\ r_last.port \in RowPorts(r_users)

\* C23: get_next_available_port returns ports above the base in strictly
\* increasing order, so none twice, also after removals; two _create_node
\* calls under way never hold the same port
C23_PortsNeverReused ==
  /\ \A i \in 1..Len(r_alloc) : r_alloc[i] > BASE_PORT
  /\ \A i \in 1..Len(r_alloc), j \in 1..Len(r_alloc) : i < j => r_alloc[i] < r_alloc[j]
  /\ \A c \in Creators, d \in Creators :
       (c # d /\ r_creator[c].pc = "got" /\ r_creator[d].pc = "got")
         => r_creator[c].port # r_creator[d].port

\* the step is a final reconstruction at the primary: compute_final_result
\* and get_total_participants, in handle_reveal_response or after the grace
ReconstructsVia(s) == rr[s].pc # "writing" /\ rr'[s].pc = "writing"
ReconstructsAfterGrace ==
  dl_pc[first_heavy] # "writing" /\ dl_pc'[first_heavy] = "writing"

C25_ShutdownCancelsPendingWaits ==
  [][\A h \in Heavy :
       (n_status[h] = "STOPPED" /\ h \notin users) =>
         /\ h \notin users'
         /\ dl_pc'[h] = dl_pc[h]
         /\ timer'[h] \in {timer[h], "cancelled"}
         /\ \A i \in (Len(registry_writes) + 1)..Len(registry_writes') :
              registry_writes'[i].by # h]_vars

\* AWAITING_REVEAL: a secondary whose deadline task has run and has passed
\* the participant check, the aggregator kept for the reveal
AwaitingReveal(s) ==
  /\ ~is_primary_heavy_node(s)
  /\ timer[s] = "fired"
  /\ dl_pc[s] = "returned"
  /\ HasAggregator(s)

\* C26: a reveal request for K is answered with the partial sum (a reveal
\* response is sent) only by a secondary in AWAITING_REVEAL; before the
\* deadline tick of the secondary, or without state for K, the answer is an
\* error status and no reveal response is sent
C26_RevealRequestOnlyInAwaitingReveal ==
  [][\A h \in Heavy, s \in Heavy :
       handle_reveal_request(h, s) =>
         IF AwaitingReveal(s)
         THEN rr'[s].pc = "responding"
         ELSE rr'[s].pc = "error"]_vars

\* REVEALING: the primary between its deadline tick with the threshold met
\* and the end of its reconstruction
Revealing(h) ==
  /\ is_primary_heavy_node(h)
  /\ timer[h] = "fired"
  /\ dl_pc[h] \in {"reveal", "awaiting", "grace"}

\* C27: the primary sends a reveal request and writes a result only after
\* its own deadline task has run with the threshold met, and a reveal
\* response that reaches the primary outside REVEALING changes neither its
\* aggregation state nor the registry
C27_RevealAfterOwnFinalization ==
  [][/\ \A h \in Heavy, s \in Heavy :
          handle_reveal_request(h, s) =>
            /\ is_primary_heavy_node(h) /\ timer[h] = "fired"
            /\ meets_anonymity_threshold(Aggregator(h))
     /\ registry_writes' # registry_writes => timer[first_heavy] = "fired"
     /\ \A s \in Heavy :
          (deliver_reveal_response(first_heavy, s, MODULUS - 1)
             /\ ~Revealing(first_heavy)) =>
            UNCHANGED <<active_computations, computations, registry_writes>>]_vars

\* C28: at the deadline tick of a heavy node every share whose durable
\* write has completed is in its in-memory aggregation state, and the
\* participant check of the tick counts it
C28_TickSeesEveryStoredShare ==
  [][\A h \in Heavy :
       (process_at_deadline(h) /\ HasAggregator(h)) =>
         /\ RowSenders(received_db[h]) \subseteq DOMAIN MemoryShares(h)
         /\ dl_pc'[h] = "raised_insufficient" =>
              Cardinality(RowSenders(received_db[h])) < Aggregator(h).min_participants]_vars

\* C29: every message that fails validation, by a payload that lacks a
\* required field or by a type that is not a known one, has been answered
\* with an error status
C29_InvalidMessageAnsweredWithError ==
  \A i \in DOMAIN m_log :
    m_log[i].kind \in {"malformed", "unknown"} => m_log[i].reply = "error"

\* C30: when a light node sends a share for K it has marked K processed and
\* recorded its value v in computation_responses, the three shares of its
\* distribution are one split of that v, and share i is handled by heavy
\* node i of the descriptor and by no other
C30_ParticipantOrdering ==
  [][\A p \in Light :
       handle_share(p) =>
         LET i == l_idx[p]
             h == heavy_nodes[i]
         IN /\ comp_id \in l_processed[p]
            /\ comp_id \in DOMAIN computation_responses[p]
            /\ computation_responses[p][comp_id] = response_value[p]
            /\ Len(distribution[p]) = NUM_SHARES
            /\ reconstruct_secret(distribution[p]) = response_value[p]
            /\ UNCHANGED <<distribution, response_value, computation_responses>>
            /\ HasAggregator(h) =>
                 /\ p \in DOMAIN active_computations'[h][comp_id].received_shares
                 /\ active_computations'[h][comp_id].received_shares[p] =
                      distribution[p][i]
            /\ \A g \in HeavyNodes \ {h} :
                 /\ active_computations'[g] = active_computations[g]
                 /\ received_db'[g] = received_db[g]]_vars

\* a light node has sent its three shares, which are not all equal, and each
\* named heavy node holds the one of its position
C30_Witness ==
  \E p \in Light :
    /\ l_pc[p] = "done"
    /\ distribution[p][1] # distribution[p][NUM_SHARES]
    /\ \A i \in 1..NUM_SHARES :
         /\ p \in DOMAIN MemoryShares(heavy_nodes[i])
         /\ MemoryShares(heavy_nodes[i])[p] = distribution[p][i]

\* C31: when send_message raises for the share of one turn, the light node
\* goes on to the next turn (or ends its handler without an error after the
\* last), no heavy node's state changes by that step, and no turn of the
\* loop is ever taken again
C31_PartialDeliveryTolerated ==
  [][\A p \in Light :
       /\ l_idx'[p] >= l_idx[p]
       /\ l_pc'[p] # "raised" \/ l_pc[p] = "idle"
       /\ send_share_fails(p) =>
            /\ IF l_idx[p] < NUM_SHARES
               THEN l_pc'[p] = "send" /\ l_idx'[p] = l_idx[p] + 1
               ELSE l_pc'[p] = "done"
            /\ UNCHANGED <<active_computations, received_db, distribution>>]_vars

\* a light node has ended its handler, the share for the second heavy node
\* was lost, the first and the third hold theirs
C31_Witness ==
  \E p \in Light :
    /\ l_pc[p] = "done"
    /\ HasAggregator(heavy_nodes[2])
    /\ p \notin DOMAIN MemoryShares(heavy_nodes[2])
    /\ p \in DOMAIN MemoryShares(heavy_nodes[1])
    /\ p \in DOMAIN MemoryShares(heavy_nodes[3])

\* the named heavy nodes other than the first
Secondaries == {heavy_nodes[i] : i \in 2..NUM_SHARES}

C37_InitConfirmNeverLost ==
  [][ConfirmedAt(first_heavy) \subseteq ConfirmedAt(first_heavy)']_vars

\* C38: with the descriptor submitted through broadcast_computation alone and
\* every heavy node running, the init wait of the first heavy node ends on
\* the confirmations of both secondaries, not on the last turn of its loop
C38_InitWaitEndsOnConfirmations ==
  [][(hc_pc = "waiting" /\ hc_pc' = "done" /\ m_log = <<>> /\ Heavy \subseteq users) =>
       hc_exit' = "confirmed"]_vars

\* C33: a secondary in AWAITING_REVEAL that gets a reveal request replies with the sum of
\* its received shares modulo MODULUS and their number, and with that
\* answer its aggregation state for K is discarded
C33_SecondaryDoneAfterReveal ==
  [][\A h \in Heavy, s \in Heavy :
       (handle_reveal_request(h, s) /\ AwaitingReveal(s)) =>
         /\ rr'[s].partial_sum =
              DictSum(Aggregator(s).received_shares) % MODULUS
         /\ rr'[s].participant_count =
              Cardinality(DOMAIN Aggregator(s).received_shares)
         /\ comp_id \notin DOMAIN active_computations'[s]]_vars

\* C34: when a light node receives the descriptor of K, the loop over the
\* three heavy nodes is done and the first heavy node has ended its init
\* wait and scheduled its deadline task
C34_ParticipantsAfterPrimaryCollecting ==
  [][\A p \in Light :
       light_handle_computation(p) =>
         /\ bc_idx = NUM_SHARES
         /\ hc_pc = "done"
         /\ timer[first_heavy] = "armed"]_vars

\* every light node has distributed its value and every named heavy node
\* holds a share of each
AllDistributed ==
  \A p \in Light, h \in Heavy : HasAggregator(h) /\ p \in DOMAIN MemoryShares(h)

\* the sum of the light nodes' values
ValuesSum == SeqSum([p \in 1..NumLight |-> response_value[p]])

C36_ReconstructionAtMostOnce ==
  /\ Len(registry_writes) <= 1
  /\ registry_writes # <<>> => computations.status = "completed"

\* C39: the contributors in received_shares of an aggregator never become
\* fewer while it exists; a first heavy node that passes can_aggregate at
\* its deadline tick starts the reveal, and wherever the threshold is then
\* tested (at the start of the reveal, in handle_reveal_response, in the
\* reconstruction after the grace sleep) it is met
C39_ThresholdHoldsOncePassed ==
  [][/\ \A h \in Heavy :
          (HasAggregator(h) /\ comp_id \in DOMAIN active_computations'[h]) =>
            DOMAIN Aggregator(h).received_shares
              \subseteq DOMAIN active_computations'[h][comp_id].received_shares
     /\ (process_at_deadline(first_heavy) /\ HasAggregator(first_heavy)
           /\ can_aggregate(Aggregator(first_heavy))) =>
          dl_pc'[first_heavy] = "reveal"
     /\ \A s \in Heavy :
          (handle_reveal_response(first_heavy, s) /\ HasAggregator(first_heavy)) =>
            meets_anonymity_threshold(Aggregator(first_heavy))
     /\ (attempt_final_reconstruction(first_heavy) /\ HasAggregator(first_heavy)) =>
          meets_anonymity_threshold(Aggregator(first_heavy))]_vars

\* the reconstruction after the grace sleep has passed the threshold test
\* with two contributors, one of them added after the deadline tick
C39_Witness ==
  /\ dl_pc[first_heavy] = "writing"
  /\ late_share
  /\ computations.min_participants = NumLight
  /\ dl_write.total_participants = NumLight

\* the connections held by store operations, as a list
RECURSIVE HeldFrom(_)
HeldFrom(n) ==
  IF n = 0 THEN <<>>
  ELSE IF p_conn[n] = NULL THEN HeldFrom(n - 1)
       ELSE Append(HeldFrom(n - 1), p_conn[n])

\* each pooled connection is listed once among the available ones and the held
\* ones together; held plus available is the pool size; an operation holds a
\* connection exactly between its acquire and its release, so one that ended,
\* returned or raised, holds none
PoolSafe ==
  /\ \A c \in Conns :
       Cardinality({i \in 1..Len(p_available) : p_available[i] = c})
         + Cardinality({o \in Ops : p_conn[o] = c}) = 1
  /\ Len(p_available) + Len(HeldFrom(NumOps)) = PoolSize
  /\ \A o \in Ops : (p_conn[o] # NULL) <=> (p_pc[o] \in {"held", "finally"})

\* C40 (safety part, holds): available or held by exactly one operation, never
\* listed twice, held plus available equals the pool size, a failed operation
\* has returned its connection.
C40_PoolSafe == PoolSafe

\* an operation that raised has given its connection back while others hold
C40_PoolSafe_Witness ==
  \E o \in Ops :
    /\ p_outcome[o] = "raised"
    /\ p_pc[o] = "idle"
    /\ p_available = <<>>

\* C40: in every reachable state each pooled connection is either available
\* or held by exactly one store operation, held plus available equals the pool
\* size, every store operation returns its connection also when it fails, and
\* an acquire that finds no connection available eventually succeeds.
C40_PoolSafeAndAcquireSucceeds ==
  /\ []PoolSafe
  /\ \A o \in Ops : (p_pc[o] = "sleep") ~> (p_pc[o] = "held")
====
